---- MODULE Spec2Model ----
(***************************************************************************)
(* Model of the SmartMap travel assistant backend: the SessionManager      *)
(* (backend/src/core/session_manager.py), the TravelAgent planning loop    *)
(* (backend/src/core/travel_agent.py), the chat driver transcript          *)
(* (backend/src/core/chat_openai.py), the MCP tool connectors             *)
(* (backend/src/core/mcp_client.py) and the REST and websocket endpoints   *)
(* (backend/src/api/main.py).                                              *)
(*                                                                         *)
(* The program is single-threaded asyncio code: every action below is one  *)
(* maximal run of a coroutine between two suspension points (await), so    *)
(* the interleavings of the model are the interleavings of the event loop. *)
(* External parties (the model endpoint, the tool provider processes, the  *)
(* wall clock, the HTTP clients) are nondeterministic choices.             *)
(*                                                                         *)
(* Collaborators are modelled by their bodies.  Two call sites of the      *)
(* repository do not bind against the callee that is in the tree:          *)
(* TravelAgent._invoke passes stream_callback/tool_call_callback to        *)
(* AsyncChatOpenAI.chat (travel_agent.py:256-261, 364-368), which declares *)
(* neither (chat_openai.py:74-76), so with that driver the call raises; the*)
(* raising outcome is part of ChatCall.  The agent factory handed to       *)
(* set_agent_factory is a parameter of the SessionManager; it is modelled  *)
(* as returning a TravelAgent with NumClients connectors.                  *)
(***************************************************************************)
EXTENDS Integers, Sequences, FiniteSets, TLC

\* ---------------------------------------------------------------- bounds
MAX_SESSIONS == 2
SESSION_TIMEOUT == 1
NumClients == 2
MaxSid == 3
MaxTime == 2
MaxReq == 2
MaxAgents == 2
MaxTasks == 1
MaxChats == 2
MaxToolCalls == 2
MaxLimit == 3
MaxWs == 2
MaxConn == 2
MaxInbox == 1
MaxPing == 1
MaxChunks == 3
MaxIndex == 1
\* the default of the limit parameter of get_chat_history (50 in the source)
DEFAULT_LIMIT == 2

Sids == 1..MaxSid
Reqs == 1..MaxReq
Agents == 1..MaxAgents
Tasks == 1..MaxTasks
Clients == 1..NumClients
Conns == 1..MaxConn

\* ----------------------------------------------------------------- state
VARIABLES
  now,             \* datetime.now(), in abstract ticks
  sessions,        \* keys of SessionManager.sessions
  nextSid,         \* number of session ids generated so far (uuid4 is fresh)
  last_activity,   \* SessionData.last_activity, per session object
  status,          \* SessionData.status
  chat_history,    \* SessionData.chat_history
  agent_instance,  \* SessionData.agent_instance (0 is None)
  nextAgent,       \* number of TravelAgent objects the factory has built
  owner,           \* session id captured by the callbacks of each agent
  mcp_clients,     \* length of TravelAgent.mcp_clients (cleanup pops the tail)
  conn,            \* per agent and connector: "new", "connected", "closed"
  messages,        \* AsyncChatOpenAI.messages of each agent's driver
  nextCallId,      \* tool-call ids handed out by the model endpoint so far
  req,             \* the process_travel_request coroutines
  tasks,           \* delete_session coroutines started with create_task
  sweep,           \* the _cleanup_expired_sessions coroutine
  expiredSeen,     \* ids for which get_session has answered None on expiry
  status_callbacks,   \* length of SessionManager.status_callbacks[id] (0: no key)
  stream_callbacks,   \* length of SessionManager.stream_callbacks[id] (0: no key)
  active_connections, \* ids with an entry in ConnectionManager.active_connections
  ws_open,            \* number of websocket_endpoint handlers running per id
  reply,              \* what the last GET .../history call returned
  sock,               \* ConnectionManager.active_connections[id]: the websocket (0: no key)
  handler,            \* the websocket_endpoint coroutine of each websocket
  inbox,              \* messages a client has sent that receive_text has not returned yet
  sent,               \* the events written to each websocket, in order
  stream,             \* where one AsyncChatOpenAI._chat call is with its response stream
  chunks,             \* the chunks that call has taken from the stream, in order
  content,            \* its local variable content
  tool_calls,         \* its local variable tool_calls
  pending             \* the send_status tasks the status callbacks have created, not yet run

svars == <<sessions, nextSid, last_activity, status, chat_history, agent_instance>>
avars == <<nextAgent, owner, mcp_clients, conn, messages, nextCallId>>
wvars == <<status_callbacks, stream_callbacks, active_connections, ws_open>>
cvars == <<sock, handler, inbox, sent>>
kvars == <<stream, chunks, content, tool_calls>>
vars == <<now, sessions, nextSid, last_activity, status, chat_history,
          agent_instance, nextAgent, owner, mcp_clients, conn, messages,
          nextCallId, req, tasks, sweep, expiredSeen, status_callbacks,
          stream_callbacks, active_connections, ws_open, reply,
          sock, handler, inbox, sent, stream, chunks, content, tool_calls,
          pending>>

\* ------------------------------------------------------- SessionData
\* SessionData.is_expired
is_expired(s) == now - last_activity[s] > SESSION_TIMEOUT

\* get_session without the is_expired test
GetFound_NoExpiry(s) == s \in sessions

\* get_session returns the session object: the id is registered and not expired
GetFound(s) == s \in sessions /\ ~is_expired(s)

\* get_session schedules delete_session exactly when the id is present and expired
GetSchedules(s) == s \in sessions /\ is_expired(s)

\* eviction by creation order instead of by last_activity
Oldest_ByCreation(S) == CHOOSE s \in S : \A u \in S : s <= u

\* min(self.sessions.keys(), key=last_activity): the first minimal key in
\* dict order, which is creation order
Oldest(S) ==
  CHOOSE s \in S : \A u \in S : last_activity[s] < last_activity[u]
                                 \/ (last_activity[s] = last_activity[u] /\ s <= u)

\* exc is the class of the exception a finished request raised: "ValueError"
\* for ValueError and its subclasses, "Exception" for any other class; st is
\* the list of the status values _emit_status was called with for the
\* request, by the agent and by process_travel_request, in order
FreeReq == [pc |-> "new", sid |-> 0, agent |-> 0, i |-> 0, calls |-> <<>>, chats |-> 0,
            exc |-> "none", st |-> <<>>]
FreeTask == [pc |-> "free", sid |-> 0, agent |-> 0, c |-> 0]
\* no history was fetched yet.  A reply holds the arguments of the call
\* (given: the limit was passed), whether get_session found the session,
\* the chat_history at the call and the list returned
NoReply == [sid |-> 0, given |-> FALSE, limit |-> 0, found |-> FALSE, hist |-> <<>>,
            out |-> <<>>]
\* no websocket_endpoint coroutine runs for the slot.  A running one is in
\* receive_text ("receive"), awaits process_travel_request r ("request") or
\* has sent the error message of its except branch ("failed"); got holds the
\* requests it has read
NoHandler == [pc |-> "closed", sid |-> 0, r |-> 0, got |-> {}]
IdleSweep == [pc |-> "sleep", expired |-> <<>>, sid |-> 0, agent |-> 0, c |-> 0]

\* number of delete_session tasks created so far
NumTasks == Cardinality({t \in Tasks : tasks[t].pc # "free"})

\* asyncio.create_task(self.delete_session(sid))
Schedule(sid) ==
  [tasks EXCEPT ![NumTasks + 1] = [pc |-> "scheduled", sid |-> sid, agent |-> 0, c |-> 0]]

Init ==
  /\ now = 0
  /\ sessions = {}
  /\ nextSid = 0
  /\ last_activity = [s \in Sids |-> 0]
  /\ status = [s \in Sids |-> "none"]
  /\ chat_history = [s \in Sids |-> <<>>]
  /\ agent_instance = [s \in Sids |-> 0]
  /\ nextAgent = 0
  /\ owner = [a \in Agents |-> 0]
  /\ mcp_clients = [a \in Agents |-> 0]
  /\ conn = [a \in Agents |-> [c \in Clients |-> "new"]]
  /\ messages = [a \in Agents |-> <<>>]
  /\ nextCallId = 0
  /\ req = [r \in Reqs |-> FreeReq]
  /\ tasks = [t \in Tasks |-> FreeTask]
  /\ sweep = IdleSweep
  /\ expiredSeen = {}
  /\ status_callbacks = [s \in Sids |-> 0]
  /\ stream_callbacks = [s \in Sids |-> 0]
  /\ active_connections = {}
  /\ ws_open = [s \in Sids |-> 0]
  /\ reply = NoReply
  /\ sock = [s \in Sids |-> 0]
  /\ handler = [c \in Conns |-> NoHandler]
  /\ inbox = [c \in Conns |-> <<>>]
  /\ sent = [c \in Conns |-> <<>>]
  /\ stream = "idle"
  /\ chunks = <<>>
  /\ content = <<>>
  /\ tool_calls = <<>>
  /\ pending = <<>>

\* the wall clock advances
Tick ==
  /\ now < MaxTime
  /\ now' = now + 1
  /\ UNCHANGED <<svars, avars, req, tasks, sweep, expiredSeen>>
  /\ UNCHANGED <<wvars, cvars, reply, kvars, pending>>

\* SessionManager.create_session
CreateSession ==
  /\ nextSid < MaxSid
  /\ LET evict == Cardinality(sessions) >= MAX_SESSIONS
         sid == nextSid + 1
     IN /\ evict => NumTasks < MaxTasks
        /\ tasks' = IF evict THEN Schedule(Oldest(sessions)) ELSE tasks
        /\ nextSid' = sid
        /\ sessions' = sessions \cup {sid}
        /\ last_activity' = [last_activity EXCEPT ![sid] = now]
        /\ status' = [status EXCEPT ![sid] = "active"]
  /\ UNCHANGED <<now, chat_history, agent_instance, avars, req, sweep, expiredSeen>>
  /\ UNCHANGED <<wvars, cvars, reply, kvars, pending>>

\* a get_session that calls update_activity before the is_expired test
GetSession_RefreshFirst(s) ==
  /\ GetSchedules(s) => NumTasks < MaxTasks
  /\ last_activity' = IF s \in sessions THEN [last_activity EXCEPT ![s] = now]
                      ELSE last_activity
  /\ tasks' = IF GetSchedules(s) THEN Schedule(s) ELSE tasks
  /\ expiredSeen' = IF GetSchedules(s) THEN expiredSeen \cup {s} ELSE expiredSeen
  /\ UNCHANGED <<now, sessions, nextSid, status, chat_history, agent_instance,
                 avars, req, sweep>>
  /\ UNCHANGED <<wvars, cvars, reply, kvars, pending>>

\* SessionManager.get_session, as called by GET /api/sessions/{id}
GetSession(s) ==
  /\ GetSchedules(s) => NumTasks < MaxTasks
  /\ last_activity' = IF GetFound(s) THEN [last_activity EXCEPT ![s] = now]
                      ELSE last_activity
  /\ tasks' = IF GetSchedules(s) THEN Schedule(s) ELSE tasks
  /\ expiredSeen' = IF GetSchedules(s) THEN expiredSeen \cup {s} ELSE expiredSeen
  /\ UNCHANGED <<now, sessions, nextSid, status, chat_history, agent_instance,
                 avars, req, sweep>>
  /\ UNCHANGED <<wvars, cvars, reply, kvars, pending>>

\* the slice h[-k+1:], which drops one message too many
Slice_OffByOne(h, k) ==
  IF k > Len(h) THEN h ELSE SubSeq(h, Len(h) - k + 2, Len(h))

\* the Python slice h[-k:] for k > 0: the last k entries, all of h when k >= len(h)
Slice(h, k) ==
  IF k >= Len(h) THEN h ELSE SubSeq(h, Len(h) - k + 1, Len(h))

\* the return expression of SessionManager.get_chat_history
get_chat_history(h, limit) == IF limit # 0 THEN Slice(h, limit) ELSE h

\* GET /api/sessions/{id}/history with or without the limit parameter:
\* get_session (activity refresh, or the deletion task of an expired id), then
\* the slice; [] for an id get_session does not return
GetChatHistory(s, given, limit) ==
  /\ GetSchedules(s) => NumTasks < MaxTasks
  /\ last_activity' = IF GetFound(s) THEN [last_activity EXCEPT ![s] = now]
                      ELSE last_activity
  /\ tasks' = IF GetSchedules(s) THEN Schedule(s) ELSE tasks
  /\ expiredSeen' = IF GetSchedules(s) THEN expiredSeen \cup {s} ELSE expiredSeen
  /\ LET l == IF given THEN limit ELSE DEFAULT_LIMIT IN
     reply' = [sid |-> s, given |-> given, limit |-> IF given THEN limit ELSE 0,
               found |-> GetFound(s),
               hist |-> IF GetFound(s) THEN chat_history[s] ELSE <<>>,
               out |-> IF GetFound(s) THEN get_chat_history(chat_history[s], l) ELSE <<>>]
  /\ UNCHANGED <<now, sessions, nextSid, status, chat_history, agent_instance,
                 avars, req, sweep, wvars, cvars, kvars, pending>>

\* ------------------------------------------------------ delete_session
\* SessionManager.delete_session from its call to its first suspension (the
\* await of the first MCPClient.cleanup inside TravelAgent.cleanup) or to its
\* return when nothing suspends.  sess and mcp are the current values of
\* self.sessions and of the mcp_clients lists.
DelEnter(sid, sess, mcp) ==
  IF sid \notin sess
  THEN [pc |-> "done", agent |-> 0, c |-> 0, sess |-> sess, mcp |-> mcp]
  ELSE LET a == agent_instance[sid] IN
       IF a = 0 \/ mcp[a] = 0
       THEN [pc |-> "done", agent |-> 0, c |-> 0, sess |-> sess \ {sid}, mcp |-> mcp]
       ELSE [pc |-> "cleanup", agent |-> a, c |-> mcp[a], sess |-> sess,
             mcp |-> [mcp EXCEPT ![a] = @ - 1]]

\* delete_session resumed after one MCPClient.cleanup: TravelAgent.cleanup pops
\* the next connector, or the session entry is deleted; del raises KeyError
\* when the key is no longer there.
DelResume(sid, a, sess, mcp) ==
  IF mcp[a] > 0
  THEN [pc |-> "cleanup", agent |-> a, c |-> mcp[a], sess |-> sess,
        mcp |-> [mcp EXCEPT ![a] = @ - 1]]
  ELSE IF sid \in sess
       THEN [pc |-> "done", agent |-> 0, c |-> 0, sess |-> sess \ {sid}, mcp |-> mcp]
       ELSE [pc |-> "failed", agent |-> 0, c |-> 0, sess |-> sess, mcp |-> mcp]

\* the coroutine state of a delete_session task; a finished task keeps only
\* its outcome
TaskState(sid, e) ==
  [pc |-> e.pc, sid |-> IF e.pc = "cleanup" THEN sid ELSE 0, agent |-> e.agent, c |-> e.c]

\* last_activity and status are read and written only through
\* self.sessions[id]; "del self.sessions[id]" takes the entry out of reach, and
\* the model keeps the entry of an unregistered id at its initial value
Registered(f, sess, none) == [s \in Sids |-> IF s \in sess THEN f[s] ELSE none]

\* delete_session deletes the callback lists of the id together with its
\* session entry
Cleared(f, before, after) == [s \in Sids |-> IF s \in before \ after THEN 0 ELSE f[s]]

\* a delete_session task created by create_task starts running
RunTask(t) ==
  /\ tasks[t].pc = "scheduled"
  /\ LET e == DelEnter(tasks[t].sid, sessions, mcp_clients) IN
     /\ tasks' = [tasks EXCEPT ![t] = TaskState(tasks[t].sid, e)]
     /\ sessions' = e.sess
     /\ mcp_clients' = e.mcp
     /\ last_activity' = Registered(last_activity, e.sess, 0)
     /\ status' = Registered(status, e.sess, "none")
  /\ UNCHANGED <<now, nextSid, chat_history, agent_instance,
                 nextAgent, owner, conn, messages, nextCallId, req, sweep, expiredSeen>>
  /\ status_callbacks' = Cleared(status_callbacks, sessions, sessions')
  /\ stream_callbacks' = Cleared(stream_callbacks, sessions, sessions')
  /\ UNCHANGED <<active_connections, ws_open, cvars, reply, kvars, pending>>

\* the MCPClient.cleanup awaited by a delete_session task completes
ResumeTask(t) ==
  /\ tasks[t].pc = "cleanup"
  /\ LET e == DelResume(tasks[t].sid, tasks[t].agent, sessions, mcp_clients) IN
     /\ tasks' = [tasks EXCEPT ![t] = TaskState(tasks[t].sid, e)]
     /\ sessions' = e.sess
     /\ mcp_clients' = e.mcp
     /\ last_activity' = Registered(last_activity, e.sess, 0)
     /\ status' = Registered(status, e.sess, "none")
  /\ conn' = [conn EXCEPT ![tasks[t].agent][tasks[t].c] = "closed"]
  /\ UNCHANGED <<now, nextSid, chat_history, agent_instance,
                 nextAgent, owner, messages, nextCallId, req, sweep, expiredSeen>>
  /\ status_callbacks' = Cleared(status_callbacks, sessions, sessions')
  /\ stream_callbacks' = Cleared(stream_callbacks, sessions, sessions')
  /\ UNCHANGED <<active_connections, ws_open, cvars, reply, kvars, pending>>

\* DELETE /api/sessions/{id}: get_session, then delete_session as a background task
ApiDelete(s) ==
  /\ s \in sessions
  /\ NumTasks < MaxTasks
  /\ last_activity' = IF GetFound(s) THEN [last_activity EXCEPT ![s] = now]
                      ELSE last_activity
  /\ tasks' = Schedule(s)
  /\ expiredSeen' = IF GetSchedules(s) THEN expiredSeen \cup {s} ELSE expiredSeen
  /\ UNCHANGED <<now, sessions, nextSid, status, chat_history, agent_instance,
                 avars, req, sweep>>
  /\ UNCHANGED <<wvars, cvars, reply, kvars, pending>>

\* ------------------------------------------------- _cleanup_expired_sessions
RECURSIVE SeqOf(_)
\* the keys of a dict in iteration (creation) order
SeqOf(S) ==
  IF S = {} THEN <<>>
  ELSE LET m == CHOOSE x \in S : \A y \in S : x <= y IN <<m>> \o SeqOf(S \ {m})

RECURSIVE SweepRun(_, _, _)
\* the for loop over expired_sessions, up to the next suspension of a
\* delete_session or to the end of the list
SweepRun(list, sess, mcp) ==
  IF list = <<>>
  THEN [pc |-> "sleep", expired |-> <<>>, sid |-> 0, agent |-> 0, c |-> 0,
        sess |-> sess, mcp |-> mcp]
  ELSE LET e == DelEnter(Head(list), sess, mcp) IN
       IF e.pc = "done"
       THEN SweepRun(Tail(list), e.sess, e.mcp)
       ELSE [pc |-> "deleting", expired |-> Tail(list), sid |-> Head(list),
             agent |-> e.agent, c |-> e.c, sess |-> e.sess, mcp |-> e.mcp]

SweepState(e) == [pc |-> e.pc, expired |-> e.expired, sid |-> e.sid,
                  agent |-> e.agent, c |-> e.c]

\* the sweep wakes from asyncio.sleep(60), collects the expired ids and deletes them
SweepWake ==
  /\ sweep.pc = "sleep"
  /\ LET e == SweepRun(SeqOf({s \in sessions : is_expired(s)}), sessions, mcp_clients) IN
     /\ sweep' = SweepState(e)
     /\ sessions' = e.sess
     /\ mcp_clients' = e.mcp
     /\ last_activity' = Registered(last_activity, e.sess, 0)
     /\ status' = Registered(status, e.sess, "none")
  /\ UNCHANGED <<now, nextSid, chat_history, agent_instance,
                 nextAgent, owner, conn, messages, nextCallId, req, tasks, expiredSeen>>
  /\ status_callbacks' = Cleared(status_callbacks, sessions, sessions')
  /\ stream_callbacks' = Cleared(stream_callbacks, sessions, sessions')
  /\ UNCHANGED <<active_connections, ws_open, cvars, reply, kvars, pending>>

\* a sweep without the except Exception branch: the KeyError of a
\* delete_session ends the coroutine
SweepResume_Dies ==
  /\ sweep.pc = "deleting"
  /\ LET d == DelResume(sweep.sid, sweep.agent, sessions, mcp_clients)
         e == IF d.pc = "cleanup"
              THEN [pc |-> "deleting", expired |-> sweep.expired, sid |-> sweep.sid,
                    agent |-> d.agent, c |-> d.c, sess |-> d.sess, mcp |-> d.mcp]
              ELSE IF d.pc = "done"
                   THEN SweepRun(sweep.expired, d.sess, d.mcp)
                   ELSE [pc |-> "dead", expired |-> <<>>, sid |-> 0, agent |-> 0, c |-> 0,
                         sess |-> d.sess, mcp |-> d.mcp]
     IN /\ sweep' = SweepState(e)
        /\ sessions' = e.sess
        /\ mcp_clients' = e.mcp
        /\ last_activity' = Registered(last_activity, e.sess, 0)
        /\ status' = Registered(status, e.sess, "none")
  /\ conn' = [conn EXCEPT ![sweep.agent][sweep.c] = "closed"]
  /\ UNCHANGED <<now, nextSid, chat_history, agent_instance,
                 nextAgent, owner, messages, nextCallId, req, tasks, expiredSeen>>
  /\ status_callbacks' = Cleared(status_callbacks, sessions, sessions')
  /\ stream_callbacks' = Cleared(stream_callbacks, sessions, sessions')
  /\ UNCHANGED <<active_connections, ws_open, cvars, reply, kvars, pending>>

\* the MCPClient.cleanup awaited by the sweep's delete_session completes; a
\* KeyError of that delete_session is caught by the loop's except Exception,
\* which abandons the rest of the list and sleeps again
SweepResume ==
  /\ sweep.pc = "deleting"
  /\ LET d == DelResume(sweep.sid, sweep.agent, sessions, mcp_clients)
         e == IF d.pc = "cleanup"
              THEN [pc |-> "deleting", expired |-> sweep.expired, sid |-> sweep.sid,
                    agent |-> d.agent, c |-> d.c, sess |-> d.sess, mcp |-> d.mcp]
              ELSE IF d.pc = "done"
                   THEN SweepRun(sweep.expired, d.sess, d.mcp)
                   ELSE SweepRun(<<>>, d.sess, d.mcp)
     IN /\ sweep' = SweepState(e)
        /\ sessions' = e.sess
        /\ mcp_clients' = e.mcp
        /\ last_activity' = Registered(last_activity, e.sess, 0)
        /\ status' = Registered(status, e.sess, "none")
  /\ conn' = [conn EXCEPT ![sweep.agent][sweep.c] = "closed"]
  /\ UNCHANGED <<now, nextSid, chat_history, agent_instance,
                 nextAgent, owner, messages, nextCallId, req, tasks, expiredSeen>>
  /\ status_callbacks' = Cleared(status_callbacks, sessions, sessions')
  /\ stream_callbacks' = Cleared(stream_callbacks, sessions, sessions')
  /\ UNCHANGED <<active_connections, ws_open, cvars, reply, kvars, pending>>

\* ------------------------------------------------------ ConnectionManager
\* the slot of a websocket that is accepted next
FreeConn == CHOOSE c \in Conns : /\ handler[c].pc = "closed"
                                 /\ \A d \in Conns : handler[d].pc = "closed" => c <= d

\* ConnectionManager.connect after websocket.accept(): the websocket is
\* stored under the session id, whatever the id and whatever was stored
\* before, and one status callback and one stream callback are appended for
\* it; websocket_endpoint then waits in receive_text
WsConnect(s) ==
  /\ status_callbacks[s] < MaxWs
  /\ \E c \in Conns : handler[c].pc = "closed"
  /\ active_connections' = active_connections \cup {s}
  /\ sock' = [sock EXCEPT ![s] = FreeConn]
  /\ handler' = [handler EXCEPT ![FreeConn] = [NoHandler EXCEPT !.pc = "receive", !.sid = s]]
  /\ status_callbacks' = [status_callbacks EXCEPT ![s] = @ + 1]
  /\ stream_callbacks' = [stream_callbacks EXCEPT ![s] = @ + 1]
  /\ ws_open' = [ws_open EXCEPT ![s] = @ + 1]
  /\ UNCHANGED <<now, svars, avars, req, tasks, sweep, expiredSeen, reply, kvars, pending, inbox, sent>>

\* websocket_endpoint leaves its loop: ConnectionManager.disconnect deletes
\* the entry of the session id, whichever websocket it holds; the callbacks
\* stay registered
Leave(c) ==
  /\ active_connections' = active_connections \ {handler[c].sid}
  /\ sock' = [sock EXCEPT ![handler[c].sid] = 0]
  /\ ws_open' = [ws_open EXCEPT ![handler[c].sid] = @ - 1]
  /\ handler' = [handler EXCEPT ![c] = NoHandler]
  /\ inbox' = [inbox EXCEPT ![c] = <<>>]
  /\ sent' = [sent EXCEPT ![c] = <<>>]

\* the client of a websocket of session id s goes away while its
\* websocket_endpoint waits in receive_text, which raises WebSocketDisconnect
WsDisconnect(s) ==
  /\ ws_open[s] > 0
  /\ \E c \in Conns : handler[c].pc = "receive" /\ handler[c].sid = s /\ Leave(c)
  /\ UNCHANGED <<now, svars, avars, req, tasks, sweep, expiredSeen, reply, kvars, pending,
                 status_callbacks, stream_callbacks>>

\* an event websocket_endpoint writes to a websocket: a status event with
\* its value, the travel_plan or error message that ends request r, or a pong
Event(type, r, v) == [type |-> type, r |-> r, status |-> v, k |-> 0]

\* the status event a status callback sends: the k-th status _emit_status was
\* called with for request r
Notice(r, k, v) == [type |-> "status", r |-> r, status |-> v, k |-> k]

\* "for callback in self.status_callbacks[session_id]: callback(status, details)":
\* every callback registered under the id creates one send_status task for
\* that id with asyncio.create_task
Fanout(s, r, k, v) ==
  [i \in 1..status_callbacks[s] |-> [sid |-> s, r |-> r, k |-> k, status |-> v]]

\* ConnectionManager.send_status / send_message: the event goes to the
\* websocket stored under the session id, and nowhere when there is none
Send(snt, s, e) == IF sock[s] = 0 THEN snt ELSE [snt EXCEPT ![sock[s]] = Append(@, e)]

\* a send_status task created by a status callback runs
SendStatusTask ==
  /\ pending # <<>>
  /\ LET t == Head(pending) IN sent' = Send(sent, t.sid, Notice(t.r, t.k, t.status))
  /\ pending' = Tail(pending)
  /\ UNCHANGED <<now, svars, avars, req, tasks, sweep, expiredSeen, wvars, reply, kvars,
                 sock, handler, inbox>>

\* the websocket_endpoint coroutines that await process_travel_request r
Awaiting(r) == {c \in Conns : handler[c].pc = "request" /\ handler[c].r = r}

\* process_travel_request r returns (ok) or raises to its caller.  A
\* websocket_endpoint runs on without suspension into send_message: the
\* travel_plan message and back to receive_text, or the error message of
\* its except branch.  A REST caller holds no websocket.
Deliver(r, ok) ==
  IF Awaiting(r) = {}
  THEN UNCHANGED cvars
  ELSE LET c == CHOOSE c \in Awaiting(r) : TRUE IN
       /\ sent' = Send(sent, handler[c].sid,
                       Event(IF ok THEN "travel_plan" ELSE "error", r, "none"))
       /\ handler' = [handler EXCEPT ![c].pc = IF ok THEN "receive" ELSE "failed"]
       /\ UNCHANGED <<sock, inbox>>

\* the inbound messages a client can send: a travel_request with content, a
\* ping, a message the loop ignores (an unknown type or a travel_request
\* without content) and text that json.loads rejects
Inbound == {"travel_request", "ping", "other", "invalid"}

\* the process_travel_request calls not yet made nor about to be made by a
\* websocket_endpoint
Unreserved == {r \in Reqs : req[r].pc = "new" /\ Awaiting(r) = {}}

\* the travel_request messages waiting in the inboxes
Queued ==
  {x \in Conns \X (1..MaxInbox) :
     x[2] <= Len(inbox[x[1]]) /\ inbox[x[1]][x[2]] = "travel_request"}

\* the pings a websocket has carried so far, answered or not
Pings(c) ==
  Cardinality({i \in DOMAIN inbox[c] : inbox[c][i] = "ping"})
  + Cardinality({i \in DOMAIN sent[c] : sent[c][i].type = "pong"})

\* a client writes a message to its websocket
ClientSend(c, m) ==
  /\ handler[c].pc # "closed"
  /\ Len(inbox[c]) < MaxInbox
  /\ m = "ping" => Pings(c) < MaxPing
  /\ m = "travel_request" => Cardinality(Queued) < Cardinality(Unreserved)
  /\ inbox' = [inbox EXCEPT ![c] = Append(@, m)]
  /\ UNCHANGED <<now, svars, avars, req, tasks, sweep, expiredSeen, wvars, reply, kvars, pending,
                 sock, handler, sent>>

\* receive_text returns in websocket_endpoint and the loop body runs to its
\* next suspension: a travel_request with content sends the "processing"
\* status and is about to call process_travel_request (the requests are
\* numbered in the order they are read), a ping is answered with a pong on
\* the handler's own websocket, text that is not JSON ends the handler
\* through except Exception
WsReceive(c) ==
  /\ handler[c].pc = "receive"
  /\ inbox[c] # <<>>
  /\ LET m == Head(inbox[c])
         s == handler[c].sid
         r == CHOOSE q \in Unreserved : \A u \in Unreserved : q <= u
     IN IF m = "invalid"
        THEN Leave(c)
        ELSE /\ inbox' = [inbox EXCEPT ![c] = Tail(@)]
             /\ sent' = IF m = "travel_request"
                        THEN Send(sent, s, Event("status", r, "processing"))
                        ELSE IF m = "ping"
                             THEN [sent EXCEPT ![c] = Append(@, Event("pong", 0, "none"))]
                             ELSE sent
             /\ handler' = IF m = "travel_request"
                           THEN [handler EXCEPT ![c] = [@ EXCEPT !.pc = "request", !.r = r,
                                                                 !.got = @ \cup {r}]]
                           ELSE handler
             /\ UNCHANGED <<sock, active_connections, ws_open>>
  /\ UNCHANGED <<now, svars, avars, req, tasks, sweep, expiredSeen, reply, kvars, pending,
                 status_callbacks, stream_callbacks>>

\* the except branch of websocket_endpoint after its send_message: the
\* "error" status is sent and the loop returns to receive_text
WsErrorStatus(c) ==
  /\ handler[c].pc = "failed"
  /\ sent' = Send(sent, handler[c].sid, Event("status", handler[c].r, "error"))
  /\ handler' = [handler EXCEPT ![c].pc = "receive"]
  /\ UNCHANGED <<now, svars, avars, req, tasks, sweep, expiredSeen, wvars, reply, kvars, pending,
                 sock, inbox>>

\* ------------------------------------------------- process_travel_request
\* SessionManager._emit_status: status and activity change only for a
\* registered id
EmitStatus(st, sess, s, v) == IF s \in sess THEN [st EXCEPT ![s] = v] ELSE st

EmitActivity(la, sess, s) == IF s \in sess THEN [la EXCEPT ![s] = now] ELSE la

\* entries of SessionData.chat_history: the role and the request that wrote it
UserMsg(r) == [role |-> "user", r |-> r]
AssistantMsg(r) == [role |-> "assistant", r |-> r]
ErrorMsg(r) == [role |-> "system", r |-> r]

\* messages of the driver transcript
SystemMessage == [role |-> "system", id |-> 0, calls |-> <<>>, content |-> "system_prompt"]
ContextMessage == [role |-> "user", id |-> 0, calls |-> <<>>, content |-> "context"]
PromptMessage == [role |-> "user", id |-> 0, calls |-> <<>>, content |-> "prompt"]
\* an assistant message recorded without its tool_calls list
AssistantMessage_NoToolCalls(ids) ==
  [role |-> "assistant", id |-> 0, calls |-> <<>>, content |-> "text"]

\* the assistant message _chat appends: the content and the tool_calls list
AssistantMessage(ids) == [role |-> "assistant", id |-> 0, calls |-> ids, content |-> "text"]

ToolMessage(id, out) == [role |-> "tool", id |-> id, calls |-> <<>>, content |-> out]

\* an except branch that reports the status but records no error message
Fail_NoAppend(r, s, exc) ==
  /\ chat_history' = chat_history
  /\ status' = EmitStatus(status, sessions, s, "error")
  /\ last_activity' = EmitActivity(last_activity, sessions, s)
  /\ req' = [req EXCEPT ![r] = [FreeReq EXCEPT !.pc = "raised", !.exc = exc,
                                         !.st = Append(req[r].st, "error")]]
  /\ pending' = pending \o Fanout(s, r, Len(req[r].st) + 1, "error")
  /\ Deliver(r, FALSE)

\* the except branch of process_travel_request: the error message is appended
\* to the session object the coroutine holds, the status is emitted by id and
\* the exception is raised again
Fail(r, s, exc) ==
  /\ chat_history' = [chat_history EXCEPT ![s] = Append(@, ErrorMsg(r))]
  /\ status' = EmitStatus(status, sessions, s, "error")
  /\ last_activity' = EmitActivity(last_activity, sessions, s)
  /\ req' = [req EXCEPT ![r] = [FreeReq EXCEPT !.pc = "raised", !.exc = exc,
                                         !.st = Append(req[r].st, "error")]]
  /\ pending' = pending \o Fanout(s, r, Len(req[r].st) + 1, "error")
  /\ Deliver(r, FALSE)

\* a factory that hands out one module-level agent to every session
NewAgent_Singleton == CHOOSE a \in Agents : \A b \in Agents : a <= b

\* self._agent_factory(): create_travel_agent builds a new TravelAgent with
\* new MCPClient objects on every call
NewAgent == nextAgent + 1

\* process_travel_request from its call to its first suspension: get_session,
\* the user message, _get_or_create_agent up to the first await of agent.init,
\* or, with an agent, the "processing" and "thinking" status up to the first
\* awaited stream callback of _invoke
ProcessStart(r, s) ==
  /\ req[r].pc = "new"
  /\ \A q \in Reqs : q < r => req[q].pc # "new"
  /\ IF ~GetFound(s)
     THEN /\ GetSchedules(s) => NumTasks < MaxTasks
          /\ tasks' = IF GetSchedules(s) THEN Schedule(s) ELSE tasks
          /\ expiredSeen' = IF GetSchedules(s) THEN expiredSeen \cup {s} ELSE expiredSeen
          /\ req' = [req EXCEPT ![r] = [FreeReq EXCEPT !.pc = "not_found", !.sid = s,
                                                 !.exc = "ValueError"]]
          /\ Deliver(r, FALSE)
          /\ UNCHANGED <<last_activity, status, chat_history, nextAgent, owner,
                         mcp_clients, conn, pending>>
     ELSE /\ chat_history' = [chat_history EXCEPT ![s] = Append(@, UserMsg(r))]
          /\ UNCHANGED cvars
          /\ last_activity' = [last_activity EXCEPT ![s] = now]
          /\ UNCHANGED <<tasks, expiredSeen>>
          /\ IF agent_instance[s] = 0
             THEN /\ nextAgent < MaxAgents
                  /\ nextAgent' = nextAgent + 1
                  /\ owner' = [owner EXCEPT ![NewAgent] = s]
                  /\ mcp_clients' = [mcp_clients EXCEPT ![NewAgent] = NumClients]
                  /\ req' = [req EXCEPT ![r] = [@ EXCEPT !.pc = "init", !.sid = s,
                                                !.agent = NewAgent, !.i = 1]]
                  /\ UNCHANGED <<status, conn, pending>>
             ELSE /\ status' = EmitStatus(EmitStatus(status, sessions, s, "processing"),
                                          sessions, owner[agent_instance[s]], "thinking")
                  /\ req' = [req EXCEPT ![r] = [@ EXCEPT !.pc = "thinking", !.sid = s,
                                                !.agent = agent_instance[s],
                                                !.st = <<"processing", "thinking">>]]
                  /\ pending' = pending \o Fanout(s, r, 1, "processing")
                                        \o Fanout(owner[agent_instance[s]], r, 2, "thinking")
                  /\ UNCHANGED <<nextAgent, owner, mcp_clients, conn>>
  /\ UNCHANGED <<now, sessions, nextSid, agent_instance, messages, nextCallId, sweep>>
  /\ UNCHANGED <<wvars, reply, kvars>>

\* the websocket_endpoint whose process_travel_request call is due makes it
WsProcess(c) ==
  /\ handler[c].pc = "request"
  /\ ProcessStart(handler[c].r, handler[c].sid)

\* the MCPClient.init awaited by TravelAgent.init completes.  It raises
\* (_connect_to_server re-raises) or connects; after the last connector the
\* driver is constructed (__post_init__ raises ValueError without an API key), the agent
\* is stored in the session object, and process_travel_request runs on to the
\* first awaited stream callback of _invoke.
InitClient(r) ==
  /\ req[r].pc = "init"
  /\ LET a == req[r].agent
         s == req[r].sid
         i == req[r].i
     IN \E ok \in BOOLEAN, key \in BOOLEAN :
        IF ~ok
        THEN /\ key
             /\ Fail(r, s, "Exception")
             /\ UNCHANGED <<conn, agent_instance, messages>>
        ELSE /\ conn' = [conn EXCEPT ![a][i] = "connected"]
             /\ IF i < NumClients
                THEN /\ key
                     /\ req' = [req EXCEPT ![r] = [@ EXCEPT !.i = i + 1]]
                     /\ UNCHANGED <<agent_instance, messages, chat_history, status,
                                    last_activity, cvars, pending>>
                ELSE IF ~key
                     THEN /\ Fail(r, s, "ValueError")
                          /\ UNCHANGED <<agent_instance, messages>>
                     ELSE /\ messages' = [messages EXCEPT ![a] = <<SystemMessage, ContextMessage>>]
                          /\ agent_instance' = [agent_instance EXCEPT ![s] = a]
                          /\ status' = EmitStatus(EmitStatus(status, sessions, s, "processing"),
                                                  sessions, owner[a], "thinking")
                          /\ last_activity' = EmitActivity(last_activity, sessions, s)
                          /\ req' = [req EXCEPT ![r] = [@ EXCEPT !.pc = "thinking",
                                                        !.st = <<"processing", "thinking">>]]
                          /\ pending' = pending \o Fanout(s, r, 1, "processing")
                                                \o Fanout(owner[a], r, 2, "thinking")
                          /\ UNCHANGED <<chat_history, cvars>>
  /\ UNCHANGED <<now, sessions, nextSid, nextAgent, owner, mcp_clients, nextCallId,
                 tasks, sweep, expiredSeen>>
  /\ UNCHANGED <<wvars, reply, kvars>>

\* ------------------------------------------------------ TravelAgent._invoke
\* the tool names a provider declares; every provider declares its own name
\* and the shared name 1, name 0 is declared by none
Catalog(c) == {1, c}

ToolNames == {0} \cup Clients

\* MCPClient.get_tools: empty until _connect_to_server has succeeded
get_tools(a, c) == IF conn[a][c] = "new" THEN {} ELSE Catalog(c)

\* the connectors of the agent, in mcp_clients order, that declare the name
Matching(a, name) == {c \in 1..mcp_clients[a] : name \in get_tools(a, c)}

\* a lookup without the break: the last match wins
Target_Last(a, name) ==
  IF Matching(a, name) = {} THEN 0
  ELSE CHOOSE c \in Matching(a, name) : \A d \in Matching(a, name) : c >= d

\* target_mcp_client: the first match, 0 for None
Target(a, name) ==
  IF Matching(a, name) = {} THEN 0
  ELSE CHOOSE c \in Matching(a, name) : \A d \in Matching(a, name) : c <= d

\* a loop that records a tool result only when the tool call succeeded
append_tool_result_OnSuccess(msgs, id, out) ==
  IF out = "result" THEN Append(msgs, ToolMessage(id, out)) ELSE msgs

\* AsyncChatOpenAI.append_tool_result
append_tool_result(msgs, id, out) == Append(msgs, ToolMessage(id, out))

\* AsyncChatOpenAI.clear_messages keeps the system messages only
clear_messages(msgs) == SelectSeq(msgs, LAMBDA m : m.role = "system")

\* the tool calls of one response: fresh ids, any names, arguments that parse or not
Responses(n) == [1..n -> [name : ToolNames, ok : BOOLEAN]]

\* a _chat that appends a user message on every call
WithPrompt_Always(r) == Append(messages[req[r].agent], PromptMessage)

\* the transcript a chat call sends: _chat appends the prompt first, and only
\* the first chat of an _invoke carries one
WithPrompt(r) ==
  IF req[r].pc = "thinking" THEN Append(messages[req[r].agent], PromptMessage)
  ELSE messages[req[r].agent]

\* llm.chat raises: the call is rejected before _chat runs (bound = FALSE,
\* the transcript is untouched) or the completion request fails after the
\* prompt was appended.  The exception leaves _invoke and plan_travel and
\* reaches the except branch of process_travel_request.
ChatRaises(r) ==
  /\ req[r].pc \in {"thinking", "processing"}
  /\ \E bound \in BOOLEAN :
       messages' = [messages EXCEPT ![req[r].agent] = IF bound THEN WithPrompt(r) ELSE @]
  /\ Fail(r, req[r].sid, "Exception")
  /\ UNCHANGED <<now, sessions, nextSid, agent_instance, nextAgent, owner, mcp_clients,
                 conn, nextCallId, tasks, sweep, expiredSeen>>
  /\ UNCHANGED <<wvars, reply, kvars>>

\* llm.chat returns a response without tool calls: _chat appends the assistant
\* message, _invoke emits "completed" and suspends in the last stream callback
ChatAnswers(r) ==
  /\ req[r].pc \in {"thinking", "processing"}
  /\ LET a == req[r].agent IN
     /\ messages' = [messages EXCEPT ![a] = Append(WithPrompt(r), AssistantMessage(<<>>))]
     /\ status' = EmitStatus(status, sessions, owner[a], "completed")
     /\ last_activity' = EmitActivity(last_activity, sessions, owner[a])
     /\ req' = [req EXCEPT ![r] = [@ EXCEPT !.pc = "finishing",
                                   !.st = Append(@, "completed")]]
     /\ pending' = pending \o Fanout(owner[a], r, Len(req[r].st) + 1, "completed")
  /\ UNCHANGED <<now, sessions, nextSid, chat_history, agent_instance, nextAgent, owner,
                 mcp_clients, conn, nextCallId, tasks, sweep, expiredSeen>>
  /\ UNCHANGED <<wvars, cvars, reply, kvars>>

\* llm.chat returns a response with n tool calls: _chat appends the assistant
\* message that lists them, _invoke emits "calling_tools" and suspends in the
\* stream callback before the for loop
ChatRequestsTools(r) ==
  /\ req[r].pc \in {"thinking", "processing"}
  /\ req[r].chats < MaxChats
  /\ LET a == req[r].agent IN
     /\ \E n \in 1..MaxToolCalls : \E resp \in Responses(n) :
          LET tcs == [k \in 1..n |-> [id |-> nextCallId + k, name |-> resp[k].name,
                                      ok |-> resp[k].ok]]
          IN /\ messages' = [messages EXCEPT ![a] =
                               Append(WithPrompt(r),
                                      AssistantMessage([k \in 1..n |-> nextCallId + k]))]
             /\ nextCallId' = nextCallId + n
             /\ req' = [req EXCEPT ![r] = [@ EXCEPT !.pc = "tools", !.calls = tcs,
                                           !.chats = @ + 1,
                                           !.st = Append(@, "calling_tools")]]
     /\ status' = EmitStatus(status, sessions, owner[a], "calling_tools")
     /\ pending' = pending \o Fanout(owner[a], r, Len(req[r].st) + 1, "calling_tools")
     /\ last_activity' = EmitActivity(last_activity, sessions, owner[a])
  /\ UNCHANGED <<now, sessions, nextSid, chat_history, agent_instance, nextAgent, owner,
                 mcp_clients, conn, tasks, sweep, expiredSeen>>
  /\ UNCHANGED <<wvars, cvars, reply, kvars>>

\* a loop that returns after the tool calls of a response instead of calling
\* the model again
Resolve_Returns(r, out) ==
  LET a == req[r].agent
      tc == Head(req[r].calls)
      last == Len(req[r].calls) = 1
  IN /\ messages' = [messages EXCEPT ![a] = append_tool_result(@, tc.id, out)]
     /\ req' = [req EXCEPT ![r] = [@ EXCEPT !.calls = Tail(@), !.i = 0,
                                   !.pc = IF last THEN "finishing" ELSE "tools",
                                   !.st = IF last THEN Append(@, "completed") ELSE @]]
     /\ status' = IF last THEN EmitStatus(status, sessions, owner[a], "completed")
                  ELSE status
     /\ pending' = IF last THEN pending \o Fanout(owner[a], r, Len(req[r].st) + 1, "completed")
                   ELSE pending
     /\ last_activity' = IF last THEN EmitActivity(last_activity, sessions, owner[a])
                         ELSE last_activity

\* the tool call at the head of chat_resp.tool_calls is resolved with output
\* out; after the last one "processing" is emitted and _invoke suspends before
\* the next llm.chat
Resolve(r, out) ==
  LET a == req[r].agent
      tc == Head(req[r].calls)
      last == Len(req[r].calls) = 1
  IN /\ messages' = [messages EXCEPT ![a] = append_tool_result(@, tc.id, out)]
     /\ req' = [req EXCEPT ![r] = [@ EXCEPT !.calls = Tail(@), !.i = 0,
                                   !.pc = IF last THEN "processing" ELSE "tools",
                                   !.st = IF last THEN Append(@, "processing") ELSE @]]
     /\ status' = IF last THEN EmitStatus(status, sessions, owner[a], "processing")
                  ELSE status
     /\ pending' = IF last THEN pending \o Fanout(owner[a], r, Len(req[r].st) + 1, "processing")
                   ELSE pending
     /\ last_activity' = IF last THEN EmitActivity(last_activity, sessions, owner[a])
                         ELSE last_activity

\* a loop that skips a tool call no connector declares, recording nothing
ToolDispatch_Skips(r) ==
  /\ req[r].pc = "tools"
  /\ LET a == req[r].agent
         c == Target(a, Head(req[r].calls).name)
         last == Len(req[r].calls) = 1
     IN IF c = 0
        THEN /\ req' = [req EXCEPT ![r] = [@ EXCEPT !.calls = Tail(@), !.i = 0,
                                           !.pc = IF last THEN "processing" ELSE "tools",
                                           !.st = IF last THEN Append(@, "processing") ELSE @]]
             /\ status' = IF last THEN EmitStatus(status, sessions, owner[a], "processing")
                          ELSE status
             /\ pending' = IF last
                           THEN pending \o Fanout(owner[a], r, Len(req[r].st) + 1, "processing")
                           ELSE pending
             /\ last_activity' = IF last THEN EmitActivity(last_activity, sessions, owner[a])
                                 ELSE last_activity
             /\ UNCHANGED messages
        ELSE /\ req' = [req EXCEPT ![r] = [@ EXCEPT !.pc = "calling", !.i = c,
                                           !.st = Append(@, "tool_calling")]]
             /\ status' = EmitStatus(status, sessions, owner[a], "tool_calling")
             /\ pending' = pending \o Fanout(owner[a], r, Len(req[r].st) + 1, "tool_calling")
             /\ last_activity' = EmitActivity(last_activity, sessions, owner[a])
             /\ UNCHANGED messages
  /\ UNCHANGED <<now, sessions, nextSid, chat_history, agent_instance, nextAgent, owner,
                 mcp_clients, conn, nextCallId, tasks, sweep, expiredSeen>>
  /\ UNCHANGED <<wvars, cvars, reply, kvars>>

\* one iteration of "for tool_call in chat_resp.tool_calls" up to its first
\* suspension: the connector lookup, then "tool not found" or the
\* "tool_calling" status
ToolDispatch(r) ==
  /\ req[r].pc = "tools"
  /\ LET a == req[r].agent
         c == Target(a, Head(req[r].calls).name)
     IN IF c = 0
        THEN Resolve(r, "not_found")
        ELSE /\ req' = [req EXCEPT ![r] = [@ EXCEPT !.pc = "calling", !.i = c,
                                           !.st = Append(@, "tool_calling")]]
             /\ status' = EmitStatus(status, sessions, owner[a], "tool_calling")
             /\ pending' = pending \o Fanout(owner[a], r, Len(req[r].st) + 1, "tool_calling")
             /\ last_activity' = EmitActivity(last_activity, sessions, owner[a])
             /\ UNCHANGED messages
  /\ UNCHANGED <<now, sessions, nextSid, chat_history, agent_instance, nextAgent, owner,
                 mcp_clients, conn, nextCallId, tasks, sweep, expiredSeen>>
  /\ UNCHANGED <<wvars, cvars, reply, kvars>>

\* call_tool without the try block: a failing tool call raises out of _invoke
ToolResult_NoTry(r) ==
  /\ req[r].pc = "calling"
  /\ \E out \in {"result", "failed"} :
       /\ out = "result" => /\ Head(req[r].calls).ok
                            /\ conn[req[r].agent][req[r].i] = "connected"
       /\ IF out = "result" THEN Resolve(r, out) /\ UNCHANGED <<chat_history, cvars>>
          ELSE Fail(r, req[r].sid, "Exception") /\ UNCHANGED messages
  /\ UNCHANGED <<now, sessions, nextSid, agent_instance, nextAgent, owner,
                 mcp_clients, conn, nextCallId, tasks, sweep, expiredSeen>>
  /\ UNCHANGED <<wvars, reply, kvars>>

\* the try block around call_tool: json.loads or call_tool raises and the
\* failure string is appended, or the serialized result is appended; a closed
\* connector cannot answer
ToolResult(r) ==
  /\ req[r].pc = "calling"
  /\ \E out \in {"result", "failed"} :
       /\ out = "result" => /\ Head(req[r].calls).ok
                            /\ conn[req[r].agent][req[r].i] = "connected"
       /\ Resolve(r, out)
  /\ UNCHANGED <<now, sessions, nextSid, chat_history, agent_instance, nextAgent, owner,
                 mcp_clients, conn, nextCallId, tasks, sweep, expiredSeen>>
  /\ UNCHANGED <<wvars, cvars, reply, kvars>>

\* a return path that assigns the history instead of appending to it
Finish_Replaces(r) ==
  /\ req[r].pc = "finishing"
  /\ chat_history' = [chat_history EXCEPT ![req[r].sid] = <<AssistantMsg(r)>>]
  /\ status' = EmitStatus(status, sessions, req[r].sid, "completed")
  /\ last_activity' = EmitActivity(last_activity, sessions, req[r].sid)
  /\ req' = [req EXCEPT ![r] = [FreeReq EXCEPT !.pc = "returned",
                                         !.st = Append(req[r].st, "completed")]]
  /\ pending' = pending \o Fanout(req[r].sid, r, Len(req[r].st) + 1, "completed")
  /\ Deliver(r, TRUE)
  /\ UNCHANGED <<now, sessions, nextSid, agent_instance, avars, tasks, sweep, expiredSeen>>
  /\ UNCHANGED <<wvars, reply, kvars>>

\* _invoke returns the content; process_travel_request appends the assistant
\* message, emits "completed" and returns
Finish(r) ==
  /\ req[r].pc = "finishing"
  /\ chat_history' = [chat_history EXCEPT ![req[r].sid] = Append(@, AssistantMsg(r))]
  /\ status' = EmitStatus(status, sessions, req[r].sid, "completed")
  /\ last_activity' = EmitActivity(last_activity, sessions, req[r].sid)
  /\ req' = [req EXCEPT ![r] = [FreeReq EXCEPT !.pc = "returned",
                                         !.st = Append(req[r].st, "completed")]]
  /\ pending' = pending \o Fanout(req[r].sid, r, Len(req[r].st) + 1, "completed")
  /\ Deliver(r, TRUE)
  /\ UNCHANGED <<now, sessions, nextSid, agent_instance, avars, tasks, sweep, expiredSeen>>
  /\ UNCHANGED <<wvars, reply, kvars>>

\* POST /api/plan: the status code for a process_travel_request that has
\* ended as q: 200 with the result, 404 from "except ValueError", 500 from
\* "except Exception"
plan_travel(q) ==
  IF q.pc = "returned" THEN 200
  ELSE IF q.exc = "ValueError" THEN 404 ELSE 500

\* ------------------------------------------------- AsyncChatOpenAI._chat
\* a piece of text carried by a chunk: a string over two characters, the
\* empty one standing for an absent or empty field
Pieces == {<<>>, <<1>>, <<2>>}

\* the chunks of a response stream: a text delta (index -1) or one tool-call
\* fragment with its index and its pieces of id, function name and arguments
Chunks ==
  [index : {-1}, text : Pieces, id : {<<>>}, name : {<<>>}, arguments : {<<>>}]
  \cup [index : 0..MaxIndex, text : {<<>>}, id : Pieces, name : Pieces, arguments : Pieces]

\* ToolCall()
NewToolCall == [id |-> <<>>, name |-> <<>>, arguments |-> <<>>]

\* "if len(tool_calls) <= tool_call.index: tool_calls.append(ToolCall())"
Grown(tcs, f) == IF Len(tcs) <= f.index THEN Append(tcs, NewToolCall) ELSE tcs

\* an accumulation that assigns the pieces of a fragment instead of adding them
Merge_Overwrites(tcs, f) ==
  [Grown(tcs, f) EXCEPT ![f.index + 1] =
     [id |-> IF f.id # <<>> THEN f.id ELSE @.id,
      name |-> IF f.name # <<>> THEN f.name ELSE @.name,
      arguments |-> IF f.arguments # <<>> THEN f.arguments ELSE @.arguments]]

\* this_tool_call = tool_calls[tool_call.index], then the three "+=" (list
\* positions count from 0 in the source and from 1 here)
Merge(tcs, f) ==
  [Grown(tcs, f) EXCEPT ![f.index + 1] =
     [id |-> @.id \o f.id, name |-> @.name \o f.name,
      arguments |-> @.arguments \o f.arguments]]

\* _chat opens the response stream with empty accumulators
StreamOpen ==
  /\ stream # "streaming"
  /\ stream' = "streaming"
  /\ chunks' = <<>>
  /\ content' = <<>>
  /\ tool_calls' = <<>>
  /\ UNCHANGED <<now, svars, avars, req, tasks, sweep, expiredSeen, wvars, cvars, reply, pending>>

\* one iteration of "async for chunk in stream": the text delta is added to
\* content, a fragment to the tool call at its index; tool_calls[index]
\* raises IndexError when the index is beyond the grown list
ChunkArrives(ch) ==
  /\ stream = "streaming"
  /\ Len(chunks) < MaxChunks
  /\ chunks' = Append(chunks, ch)
  /\ IF ch.index = -1
     THEN /\ content' = content \o ch.text
          /\ UNCHANGED <<stream, tool_calls>>
     ELSE IF ch.index + 1 > Len(Grown(tool_calls, ch))
          THEN /\ stream' = "raised"
               /\ tool_calls' = Grown(tool_calls, ch)
               /\ UNCHANGED content
          ELSE /\ tool_calls' = Merge(tool_calls, ch)
               /\ UNCHANGED <<stream, content>>
  /\ UNCHANGED <<now, svars, avars, req, tasks, sweep, expiredSeen, wvars, cvars, reply, pending>>

\* the stream ends and _chat returns content and tool_calls
StreamEnds ==
  /\ stream = "streaming"
  /\ stream' = "returned"
  /\ UNCHANGED <<chunks, content, tool_calls>>
  /\ UNCHANGED <<now, svars, avars, req, tasks, sweep, expiredSeen, wvars, cvars, reply, pending>>

\* ------------------------------------------------------------ specifications
\* No send_status task is waiting to run.  The event loop keeps the tasks
\* made with create_task in its ready queue and runs them, in creation
\* order, before it resumes a coroutine for input that arrives later; the
\* specifications with streaming connections run them first.
NoTaskDue == pending = <<>>

\* the process_travel_request coroutine r has started and not yet returned or raised
InFlight(r) == req[r].pc \in {"init", "thinking", "tools", "calling", "processing", "finishing"}

\* The registry with its clock, the sweep, the deletion tasks and one
\* process_travel_request against a model endpoint that asks for no tools.
Next ==
  \/ Tick
  \/ CreateSession
  \/ \E s \in Sids : GetSession(s)
  \/ \E s \in Sids : ApiDelete(s)
  \/ \E t \in Tasks : RunTask(t)
  \/ \E t \in Tasks : ResumeTask(t)
  \/ SweepWake
  \/ SweepResume
  \/ \E s \in Sids : ProcessStart(1, s)
  \/ InitClient(1)
  \/ ChatRaises(1)
  \/ ChatAnswers(1)
  \/ Finish(1)

Spec == Init /\ [][Next]_vars

\* the registry after one create_session
InitOne ==
  /\ now = 0
  /\ sessions = {1}
  /\ nextSid = 1
  /\ last_activity = [s \in Sids |-> 0]
  /\ status = [s \in Sids |-> IF s = 1 THEN "active" ELSE "none"]
  /\ chat_history = [s \in Sids |-> <<>>]
  /\ agent_instance = [s \in Sids |-> 0]
  /\ nextAgent = 0
  /\ owner = [a \in Agents |-> 0]
  /\ mcp_clients = [a \in Agents |-> 0]
  /\ conn = [a \in Agents |-> [c \in Clients |-> "new"]]
  /\ messages = [a \in Agents |-> <<>>]
  /\ nextCallId = 0
  /\ req = [r \in Reqs |-> FreeReq]
  /\ tasks = [t \in Tasks |-> FreeTask]
  /\ sweep = IdleSweep
  /\ expiredSeen = {}
  /\ status_callbacks = [s \in Sids |-> 0]
  /\ stream_callbacks = [s \in Sids |-> 0]
  /\ active_connections = {}
  /\ ws_open = [s \in Sids |-> 0]
  /\ reply = NoReply
  /\ sock = [s \in Sids |-> 0]
  /\ handler = [c \in Conns |-> NoHandler]
  /\ inbox = [c \in Conns |-> <<>>]
  /\ sent = [c \in Conns |-> <<>>]
  /\ stream = "idle"
  /\ chunks = <<>>
  /\ content = <<>>
  /\ tool_calls = <<>>
  /\ pending = <<>>

\* the registry after two create_session calls
InitTwo ==
  /\ now = 0
  /\ sessions = {1, 2}
  /\ nextSid = 2
  /\ last_activity = [s \in Sids |-> 0]
  /\ status = [s \in Sids |-> IF s \in {1, 2} THEN "active" ELSE "none"]
  /\ chat_history = [s \in Sids |-> <<>>]
  /\ agent_instance = [s \in Sids |-> 0]
  /\ nextAgent = 0
  /\ owner = [a \in Agents |-> 0]
  /\ mcp_clients = [a \in Agents |-> 0]
  /\ conn = [a \in Agents |-> [c \in Clients |-> "new"]]
  /\ messages = [a \in Agents |-> <<>>]
  /\ nextCallId = 0
  /\ req = [r \in Reqs |-> FreeReq]
  /\ tasks = [t \in Tasks |-> FreeTask]
  /\ sweep = IdleSweep
  /\ expiredSeen = {}
  /\ status_callbacks = [s \in Sids |-> 0]
  /\ stream_callbacks = [s \in Sids |-> 0]
  /\ active_connections = {}
  /\ ws_open = [s \in Sids |-> 0]
  /\ reply = NoReply
  /\ sock = [s \in Sids |-> 0]
  /\ handler = [c \in Conns |-> NoHandler]
  /\ inbox = [c \in Conns |-> <<>>]
  /\ sent = [c \in Conns |-> <<>>]
  /\ stream = "idle"
  /\ chunks = <<>>
  /\ content = <<>>
  /\ tool_calls = <<>>
  /\ pending = <<>>

\* Two sessions, one of them with a request that builds its agent, the clock,
\* get_session on the first (which schedules a deletion task once it has
\* expired) and the started sweep.
NextSweep ==
  \/ Tick
  \/ GetSession(1)
  \/ \E t \in Tasks : RunTask(t)
  \/ \E t \in Tasks : ResumeTask(t)
  \/ SweepWake
  \/ SweepResume
  \/ ProcessStart(1, 1)
  \/ InitClient(1)
  \/ ChatRaises(1)
  \/ ChatAnswers(1)
  \/ Finish(1)

\* The scheduling of the started sweep: the event loop resumes the
\* _cleanup_expired_sessions task whenever its asyncio.sleep(60) or the
\* MCPClient.cleanup it awaits has completed.
SpecSweep == InitTwo /\ [][NextSweep]_vars /\ WF_vars(SweepWake) /\ WF_vars(SweepResume)

\* Two sessions, the clock and every caller of get_session: the GET and
\* DELETE endpoints and process_travel_request, with the deletion tasks they
\* schedule.
NextGet ==
  \/ Tick
  \/ \E s \in {1, 2} : GetSession(s)
  \/ \E s \in {1, 2} : ApiDelete(s)
  \/ \E t \in Tasks : RunTask(t)
  \/ \E t \in Tasks : ResumeTask(t)
  \/ \E s \in {1, 2} : ProcessStart(1, s)
  \/ InitClient(1)
  \/ ChatRaises(1)
  \/ ChatAnswers(1)
  \/ Finish(1)

SpecGet == InitTwo /\ [][NextGet]_vars

\* One session and the websockets opened for its id, with clients that send
\* planning requests, pings and other messages and go away between messages.
NextWs ==
  \/ NoTaskDue /\ WsConnect(1)
  \/ NoTaskDue /\ WsDisconnect(1)
  \/ NoTaskDue /\ \E c \in Conns : \E m \in Inbound : ClientSend(c, m)
  \/ NoTaskDue /\ \E c \in Conns : WsReceive(c)
  \/ NoTaskDue /\ \E c \in Conns : WsProcess(c)
  \/ NoTaskDue /\ \E c \in Conns : WsErrorStatus(c)
  \/ NoTaskDue /\ \E r \in Reqs : InitClient(r)
  \/ NoTaskDue /\ \E r \in Reqs : ChatRaises(r)
  \/ NoTaskDue /\ \E r \in Reqs : ChatAnswers(r)
  \/ NoTaskDue /\ \E r \in Reqs : Finish(r)
  \/ SendStatusTask

SpecWs == InitOne /\ [][NextWs]_vars

\* One session and one websocket at a time for its id, with a client that
\* sends planning requests and pings.
NextPing ==
  \/ NoTaskDue /\ ws_open[1] = 0 /\ WsConnect(1)
  \/ NoTaskDue /\ WsDisconnect(1)
  \/ NoTaskDue /\ \E c \in Conns : \E m \in {"travel_request", "ping"} : ClientSend(c, m)
  \/ NoTaskDue /\ \E c \in Conns : WsReceive(c)
  \/ NoTaskDue /\ \E c \in Conns : WsProcess(c)
  \/ NoTaskDue /\ \E c \in Conns : WsErrorStatus(c)
  \/ NoTaskDue /\ \E r \in Reqs : InitClient(r)
  \/ NoTaskDue /\ \E r \in Reqs : ChatRaises(r)
  \/ NoTaskDue /\ \E r \in Reqs : ChatAnswers(r)
  \/ NoTaskDue /\ \E r \in Reqs : Finish(r)
  \/ SendStatusTask

\* The scheduling of the event loop: a coroutine whose await has completed
\* is resumed.  This covers the steps that wait for nothing outside the
\* process: receive_text with a message in the inbox, the call of
\* process_travel_request, the sends of the except branch and the return of
\* _invoke.  Nothing obliges a tool provider or the model endpoint to answer.
SpecPing ==
  /\ InitOne /\ [][NextPing]_vars
  /\ \A c \in Conns : WF_vars(WsReceive(c)) /\ WF_vars(WsProcess(c))
                        /\ WF_vars(WsErrorStatus(c))
  /\ \A r \in Reqs : WF_vars(Finish(r))
  /\ WF_vars(SendStatusTask)

\* One _chat call after the other, each with any response stream of up to
\* MaxChunks chunks.
NextChat ==
  \/ StreamOpen
  \/ \E ch \in Chunks : ChunkArrives(ch)
  \/ StreamEnds

SpecChat == InitOne /\ [][NextChat]_vars

\* Two sessions and requests on either of them that interleave freely, each
\* with its agent initialisation and its model calls.
NextPair ==
  \/ \E r \in Reqs : \E s \in {1, 2} : ProcessStart(r, s)
  \/ \E r \in Reqs : InitClient(r)
  \/ \E r \in Reqs : ChatRaises(r)
  \/ \E r \in Reqs : ChatAnswers(r)
  \/ \E r \in Reqs : Finish(r)

SpecPair == InitTwo /\ [][NextPair]_vars

\* One session and overlapping process_travel_request calls on it, with the
\* session deleted at any moment.
NextOverlap ==
  \/ ApiDelete(1)
  \/ \E t \in Tasks : RunTask(t)
  \/ \E t \in Tasks : ResumeTask(t)
  \/ \E r \in Reqs : ProcessStart(r, 1)
  \/ \E r \in Reqs : InitClient(r)
  \/ \E r \in Reqs : ChatRaises(r)
  \/ \E r \in Reqs : ChatAnswers(r)
  \/ \E r \in Reqs : Finish(r)

SpecOverlap == InitOne /\ [][NextOverlap]_vars

\* One session, a client that sends its requests one after the other and
\* fetches the chat history at any moment, the clock and the deletion tasks
\* of an expired session.
NextHistory ==
  \/ Tick
  \/ \E t \in Tasks : RunTask(t)
  \/ \E t \in Tasks : ResumeTask(t)
  \/ \E r \in Reqs : (\A q \in Reqs : ~InFlight(q)) /\ ProcessStart(r, 1)
  \/ \E r \in Reqs : InitClient(r)
  \/ \E r \in Reqs : ChatRaises(r)
  \/ \E r \in Reqs : ChatAnswers(r)
  \/ \E r \in Reqs : Finish(r)
  \/ \E given \in BOOLEAN : \E limit \in 0..MaxLimit :
       (given \/ limit = 0) /\ GetChatHistory(1, given, limit)

SpecHistory == InitOne /\ [][NextHistory]_vars

\* One session with streaming connections opened for its id and for an
\* unknown id, one request, and every way the session is deleted: the DELETE
\* endpoint, get_session on expiry and the sweep.
NextDelete ==
  \/ NoTaskDue /\ Tick
  \/ NoTaskDue /\ GetSession(1)
  \/ NoTaskDue /\ ApiDelete(1)
  \/ NoTaskDue /\ \E t \in Tasks : RunTask(t)
  \/ NoTaskDue /\ \E t \in Tasks : ResumeTask(t)
  \/ NoTaskDue /\ SweepWake
  \/ NoTaskDue /\ SweepResume
  \/ NoTaskDue /\ \E s \in {1, 2} : WsConnect(s)
  \/ NoTaskDue /\ \E s \in {1, 2} : WsDisconnect(s)
  \/ NoTaskDue /\ ProcessStart(1, 1)
  \/ NoTaskDue /\ InitClient(1)
  \/ NoTaskDue /\ ChatRaises(1)
  \/ NoTaskDue /\ ChatAnswers(1)
  \/ NoTaskDue /\ Finish(1)
  \/ SendStatusTask

SpecDelete == InitOne /\ [][NextDelete]_vars

\* One session and the planning loop of one request with its tool cycles, with
\* the session deleted at any moment.
NextLoop ==
  \/ ApiDelete(1)
  \/ \E t \in Tasks : RunTask(t)
  \/ \E t \in Tasks : ResumeTask(t)
  \/ ProcessStart(1, 1)
  \/ InitClient(1)
  \/ ChatRaises(1)
  \/ ChatAnswers(1)
  \/ ChatRequestsTools(1)
  \/ ToolDispatch(1)
  \/ ToolResult(1)
  \/ Finish(1)

SpecLoop == InitOne /\ [][NextLoop]_vars

\* One session and overlapping process_travel_request calls on it, each with
\* its planning loop and its tool cycles; a request that starts once the
\* session holds its agent runs on the same driver transcript.  The model
\* endpoint asks for tools until it has handed out MaxToolCalls tool-call ids.
NextShared ==
  \/ \E r \in Reqs : ProcessStart(r, 1)
  \/ \E r \in Reqs : InitClient(r)
  \/ \E r \in Reqs : ChatRaises(r)
  \/ \E r \in Reqs : ChatAnswers(r)
  \/ \E r \in Reqs : nextCallId < MaxToolCalls /\ ChatRequestsTools(r)
  \/ \E r \in Reqs : ToolDispatch(r)
  \/ \E r \in Reqs : ToolResult(r)
  \/ \E r \in Reqs : Finish(r)

SpecShared == InitOne /\ [][NextShared]_vars

\* The registry filled by create_session, with the clock, one
\* process_travel_request on any session and the deletion tasks; every
\* deletion task of a session with a request in flight is an eviction task.
NextEvict ==
  \/ Tick
  \/ CreateSession
  \/ \E t \in Tasks : RunTask(t)
  \/ \E t \in Tasks : ResumeTask(t)
  \/ \E s \in Sids : ProcessStart(1, s)
  \/ InitClient(1)
  \/ ChatRaises(1)
  \/ ChatAnswers(1)
  \/ Finish(1)

SpecEvict == Init /\ [][NextEvict]_vars

\* ------------------------------------------------------------------ claims
IsAssistantWithCalls(m) == m.role = "assistant" /\ m.calls # <<>>

\* the tool-role messages of a transcript that answer tool-call id
ResultsFor(msgs, id) == {q \in DOMAIN msgs : msgs[q].role = "tool" /\ msgs[q].id = id}

\* the k messages that follow position p are the tool results of the first k
\* tool calls listed at p, in the order listed
AnsweredInOrder(msgs, p, k) ==
  /\ p + k <= Len(msgs)
  /\ \A j \in 1..k : msgs[p + j].role = "tool" /\ msgs[p + j].id = msgs[p].calls[j]

\* the number of tool calls of the request's current response already resolved
Done(r, msgs, p) == Len(msgs[p].calls) - Len(req[r].calls)

\* the request is inside the for loop over the tool calls listed at position p
Resolving(r, msgs, p) ==
  /\ req[r].pc \in {"tools", "calling"}
  /\ \A q \in DOMAIN msgs : q > p => msgs[q].role = "tool"

\* C1: every assistant response with tool calls t1..tn gets exactly one
\* tool-role message per tool-call id, in the order t1..tn, and all n are in
\* the transcript whenever the loop is not inside the for loop of that
\* response, in particular in the state from which the next llm.chat is issued.
C1_OneResultPerToolCallInOrder ==
  \A a \in Agents : \A p \in DOMAIN messages[a] :
    IsAssistantWithCalls(messages[a][p]) =>
      LET msgs == messages[a]
          n == Len(msgs[p].calls)
      IN /\ \A j \in 1..n : Cardinality(ResultsFor(msgs, msgs[p].calls[j])) <= 1
         /\ IF \E r \in Reqs : req[r].agent = a /\ Resolving(r, msgs, p)
            THEN \A r \in Reqs : req[r].agent = a /\ Resolving(r, msgs, p) =>
                   /\ AnsweredInOrder(msgs, p, Done(r, msgs, p))
                   /\ Len(msgs) = p + Done(r, msgs, p)
            ELSE /\ AnsweredInOrder(msgs, p, n)
                 /\ \A j \in 1..n : Cardinality(ResultsFor(msgs, msgs[p].calls[j])) = 1

\* a response with two tool calls was answered in order and the next
\* completion call has been issued and has returned
C1_Witness ==
  \E a \in Agents : \E p \in DOMAIN messages[a] :
    /\ IsAssistantWithCalls(messages[a][p])
    /\ Len(messages[a][p].calls) = 2
    /\ Len(messages[a]) > p + 2
    /\ messages[a][p + 1].content = "not_found"
    /\ messages[a][p + 2].content = "result"
    /\ messages[a][p + 3].role = "assistant"

\* C2: a tool call that fails does not raise out of _invoke: from inside the
\* for loop the request only moves on inside the loop or to the next chat, the
\* call at the head gets its tool result (the failure string when the
\* arguments do not parse or the connector is closed) and the remaining calls
\* stay to be processed.
C2_ToolFailureIsLocal ==
  [][\A r \in Reqs :
       req[r].pc \in {"tools", "calling"} /\ req'[r] # req[r] =>
         LET a == req[r].agent
             tc == Head(req[r].calls)
         IN /\ req'[r].pc \in {"tools", "calling", "processing"}
            /\ req'[r].agent = a
            /\ \/ /\ req'[r].pc = "calling"
                  /\ req'[r].calls = req[r].calls
                  /\ messages'[a] = messages[a]
               \/ /\ req'[r].pc = (IF Len(req[r].calls) = 1 THEN "processing" ELSE "tools")
                  /\ req'[r].calls = Tail(req[r].calls)
                  /\ \E out \in {"result", "failed", "not_found"} :
                       messages'[a] = Append(messages[a], ToolMessage(tc.id, out))
                  /\ (req[r].pc = "calling" /\ (~tc.ok \/ conn[a][req[r].i] # "connected"))
                       => messages'[a] = Append(messages[a], ToolMessage(tc.id, "failed"))
    ]_vars

\* a failed tool call was followed by the result of the next call of the same
\* response, and the request ended with the final answer
C2_Witness ==
  /\ req[1].pc = "returned"
  /\ \E a \in Agents : \E q \in DOMAIN messages[a] :
       /\ q < Len(messages[a])
       /\ messages[a][q].role = "tool" /\ messages[a][q].content = "failed"
       /\ messages[a][q + 1].role = "tool" /\ messages[a][q + 1].content = "result"

\* C3: the number of entries of sessions never exceeds MAX_SESSIONS.
C3_CapacityBound == Cardinality(sessions) <= MAX_SESSIONS

\* the delete_session coroutines created or resumed in this step
TasksChanged == {t \in Tasks : tasks'[t] # tasks[t]}

\* C4: a create_session at or above capacity schedules the eviction of exactly
\* one session, the one with the smallest last_activity at that moment, and
\* removes no session itself; the eviction task removes no session but the one
\* it was created for.
C4_EvictsOldestOnly ==
  [][/\ nextSid' = nextSid + 1 =>
          /\ sessions' = sessions \cup {nextSid'}
          /\ IF Cardinality(sessions) >= MAX_SESSIONS
             THEN \E t \in Tasks :
                    /\ TasksChanged = {t}
                    /\ tasks[t].pc = "free" /\ tasks'[t].pc = "scheduled"
                    /\ tasks'[t].sid \in sessions
                    /\ \A u \in sessions :
                         last_activity[tasks'[t].sid] <= last_activity[u]
             ELSE tasks' = tasks
     /\ \A t \in Tasks :
          tasks[t].pc \in {"scheduled", "cleanup"} /\ tasks'[t] # tasks[t] =>
            sessions \ sessions' \subseteq {tasks[t].sid}
    ]_vars

\* at capacity, with session 1 refreshed after session 2 was created, the
\* eviction of session 2 is scheduled by the create of session 3
C4_Witness ==
  /\ nextSid = 3 /\ sessions = {1, 2, 3}
  /\ last_activity[1] > last_activity[2]
  /\ last_activity[3] > last_activity[2]
  /\ \E t \in Tasks : tasks[t].pc = "scheduled" /\ tasks[t].sid = 2

\* C5: once get_session(id) has answered None on expiry, get_session(id)
\* answers None in every later state.
C5_ExpiryIsFinal ==
  \A s \in expiredSeen : ~(s \in sessions /\ now - last_activity[s] <= SESSION_TIMEOUT)

\* the agents built for session s that are held by it or still being initialised
LiveAgents(s) ==
  {a \in 1..nextAgent :
     /\ owner[a] = s
     /\ \/ agent_instance[s] = a
        \/ \E r \in Reqs : req[r].pc = "init" /\ req[r].agent = a}

\* C6: a session never has two agents that are held or being built.
C6_OneAgentPerSession == \A s \in Sids : Cardinality(LiveAgents(s)) <= 1

\* something still refers to agent a and will run its cleanup: a registered
\* session that holds it, its init in progress, or a delete_session inside
\* its cleanup
Referenced(a) ==
  \/ \E s \in sessions : agent_instance[s] = a
  \/ \E r \in Reqs : req[r].pc = "init" /\ req[r].agent = a
  \/ \E t \in Tasks : tasks[t].pc = "cleanup" /\ tasks[t].agent = a
  \/ sweep.pc = "deleting" /\ sweep.agent = a

\* C7: every connected MCPClient is cleaned up on every exit path of its
\* agent; so a connector that is connected always belongs to an agent whose
\* cleanup can still be reached.
C7_ConnectedIsReleasable ==
  \A a \in Agents : \A c \in Clients : conn[a][c] = "connected" => Referenced(a)

\* C8: a step of the sweep neither removes the session of a request in flight
\* nor pops a connector of the agent that request runs on.
C8_SweepSparesRunningRequests ==
  [][sweep' # sweep =>
       \A r \in Reqs : InFlight(r) =>
         /\ req[r].sid \in sessions => req[r].sid \in sessions'
         /\ mcp_clients'[req[r].agent] = mcp_clients[req[r].agent]
    ]_vars

\* the llm.chat of request r raises in this step
ChatFails(r) == req[r].pc \in {"thinking", "processing"} /\ req'[r].pc = "raised"

C10_NotFoundChangesNothing ==
  [][\A r \in Reqs : req[r].pc = "new" /\ req'[r].pc # "new" =>
       /\ req'[r].pc = "not_found" =>
            UNCHANGED <<sessions, nextSid, last_activity, status, chat_history,
                        agent_instance, nextAgent, owner, mcp_clients, conn,
                        messages, nextCallId>>
       /\ req'[r].pc # "not_found" =>
            /\ req'[r].sid \in sessions
            /\ now - last_activity[req'[r].sid] <= SESSION_TIMEOUT
       /\ req'[r].pc = "not_found" =>
            \/ req'[r].sid \notin sessions
            \/ now - last_activity[req'[r].sid] > SESSION_TIMEOUT
    ]_vars

\* a request on an expired, still registered session was answered not found
C10_Witness ==
  /\ req[1].pc = "not_found"
  /\ req[1].sid \in sessions \cap expiredSeen
  /\ now - last_activity[req[1].sid] > SESSION_TIMEOUT
  /\ chat_history[req[1].sid] = <<>>

\* every tool-role message of the transcript answers a tool call listed by an
\* assistant message at an earlier position
Preceded(msgs) ==
  \A q \in DOMAIN msgs :
    msgs[q].role = "tool" =>
      \E p \in 1..(q - 1) :
        /\ msgs[p].role = "assistant"
        /\ \E j \in DOMAIN msgs[p].calls : msgs[p].calls[j] = msgs[q].id

\* C11: in every driver transcript each tool-role message carries the id of a
\* tool call listed by an earlier assistant message of the same transcript,
\* and clear_messages would leave a transcript with the same property.
C11_ToolResultsFollowTheirCall ==
  \A a \in Agents :
    /\ Preceded(messages[a])
    /\ Preceded(clear_messages(messages[a]))

\* the second tool call of a response was answered: its result does not follow
\* the assistant message directly
C11_Witness ==
  \E a \in Agents : \E q \in DOMAIN messages[a] :
    /\ q > 1
    /\ messages[a][q].role = "tool"
    /\ messages[a][q - 1].role = "tool"

\* C12: a history fetched from a live session with limit equal to the number
\* N >= 1 of messages appended so far is exactly those N messages in their
\* order.
C12_LimitNRoundTrip ==
  (reply.found /\ reply.given /\ reply.limit = Len(reply.hist) /\ reply.limit >= 1)
    => reply.out = reply.hist

\* the three messages of two turns were fetched with limit 3
C12_Witness ==
  /\ reply.found /\ reply.given /\ reply.limit = 3
  /\ reply.out = <<UserMsg(1), ErrorMsg(1), UserMsg(2)>>

\* C13: a history fetched from a live session with limit 0 or without a limit
\* is the full history.
C13_NoLimitIsFullHistory ==
  (reply.found /\ (~reply.given \/ reply.limit = 0)) => reply.out = reply.hist

\* every connector of agent a is connected
AllConnected(a) == \A c \in Clients : conn[a][c] = "connected"

\* C14: on a session whose connectors all work, the first model call of a
\* request reaches the model (the request fails there only if the completion
\* itself fails, after the prompt was sent); once the tool calls of the first
\* response are executed the one further model call that answers without
\* tool calls ends the loop, and the request returns with the session's
\* status "completed" and the answer in its history.
C14_SuccessScenario ==
  [][\A r \in Reqs :
       LET a == req[r].agent
           s == req[r].sid
       IN /\ (req[r].pc = "thinking" /\ AllConnected(a) /\ req'[r].pc = "raised")
               => messages'[a] = Append(messages[a], PromptMessage)
          /\ (req[r].pc = "processing" /\ req'[r].pc = "finishing")
               => messages'[a] = Append(messages[a], AssistantMessage(<<>>))
          /\ (req[r].pc = "finishing" /\ req'[r] # req[r])
               => /\ req'[r].pc = "returned"
                  /\ chat_history'[s] = Append(chat_history[s], AssistantMsg(r))
                  /\ s \in sessions => status'[s] = "completed"
    ]_vars

\* C15: a connector whose connect raises does not fail the request: a request
\* that is initialising its agent goes on with the connectors that did
\* connect, so it raises from there only when every connector is connected
\* (and the driver could not be built).
C15_FailedConnectorTolerated ==
  [][\A r \in Reqs :
       (req[r].pc = "init" /\ req'[r].pc = "raised")
         => \A c \in Clients : conn'[req[r].agent][c] = "connected"
    ]_vars

\* delete_session(sid) has returned in this step having found the session:
\* the id is in none of the three maps and the connector list of the
\* session's agent is empty
Deleted(sid) ==
  /\ sid \notin sessions'
  /\ status_callbacks'[sid] = 0
  /\ stream_callbacks'[sid] = 0
  /\ agent_instance[sid] # 0 => mcp_clients'[agent_instance[sid]] = 0

\* C16: a delete_session that finds the session ends with the id removed from
\* sessions, status_callbacks and stream_callbacks and the agent's connectors
\* released; a delete_session of an id that is not registered changes
\* nothing; and no delete_session raises, whether run as a task or by the sweep.
C16_DeleteReleasesAndIsIdempotent ==
  [][/\ \A t \in Tasks :
          (tasks[t].pc \in {"scheduled", "cleanup"} /\ tasks'[t] # tasks[t]) =>
             /\ tasks'[t].pc # "failed"
             /\ (tasks'[t].pc = "done" /\ tasks[t].sid \in sessions) => Deleted(tasks[t].sid)
             /\ (tasks[t].pc = "scheduled" /\ tasks[t].sid \notin sessions) =>
                  /\ tasks'[t].pc = "done"
                  /\ UNCHANGED <<svars, avars, wvars>>
     /\ (sweep.pc = "deleting" /\ sweep' # sweep) =>
          /\ DelResume(sweep.sid, sweep.agent, sessions, mcp_clients).pc # "failed"
          /\ DelResume(sweep.sid, sweep.agent, sessions, mcp_clients).pc = "done"
               => Deleted(sweep.sid)
    ]_vars

IsPrefix(a, b) == Len(a) <= Len(b) /\ SubSeq(b, 1, Len(a)) = a

\* the number of entries of history h equal to m
Count(h, m) == Cardinality({q \in DOMAIN h : h[q] = m})

\* request r has appended its user message to h and no reply yet
AwaitsReply(h, r) ==
  /\ Count(h, UserMsg(r)) = 1
  /\ Count(h, AssistantMsg(r)) = 0
  /\ Count(h, ErrorMsg(r)) = 0

\* C17: every step leaves each chat_history a prefix of its new value; a
\* request that finds its session appends its user message when it starts,
\* nothing while it runs, and exactly one assistant message when it returns or
\* exactly one error message when it raises, to the history of its own
\* session; a request that does not find its session appends nothing.
C17_HistoryAppendOnly ==
  [][/\ \A s \in Sids : IsPrefix(chat_history[s], chat_history'[s])
     /\ \A r \in Reqs : req'[r] # req[r] =>
          LET s == IF req[r].pc = "new" THEN req'[r].sid ELSE req[r].sid IN
          /\ (req[r].pc = "new" /\ req'[r].pc = "not_found") => chat_history' = chat_history
          /\ (req[r].pc = "new" /\ req'[r].pc # "not_found") =>
               chat_history' = [chat_history EXCEPT ![s] = Append(@, UserMsg(r))]
          /\ (InFlight(r) /\ req'[r].pc \in {"returned", "raised"}) =>
               /\ AwaitsReply(chat_history[s], r)
               /\ chat_history' = [chat_history EXCEPT ![s] =
                    Append(@, IF req'[r].pc = "returned" THEN AssistantMsg(r) ELSE ErrorMsg(r))]
          /\ (InFlight(r) /\ req'[r].pc \notin {"returned", "raised"}) =>
               chat_history' = chat_history
    ]_vars

\* two overlapping requests on one session: the second returned before the
\* first raised, and the history holds the four messages in that order
C17_Witness ==
  chat_history[1] = <<UserMsg(1), UserMsg(2), AssistantMsg(2), ErrorMsg(1)>>

\* request r has returned or raised
Ended(r) == req[r].pc \in {"returned", "not_found", "raised"}

\* C18: POST /plan answers 404 exactly when the session was not found (unknown
\* or expired id) and 500 for every other failure of the request.
C18_NotFoundIs404OtherIs500 ==
  \A r \in Reqs : Ended(r) =>
    /\ plan_travel(req[r]) = 404 <=> req[r].pc = "not_found"
    /\ req[r].pc = "raised" => plan_travel(req[r]) = 500

\* the session a step of request r works for
SessionOf(r) == IF req[r].pc = "new" THEN req'[r].sid ELSE req[r].sid

\* C19: no agent is held by two sessions, the agent a session holds reports to
\* that session, and a step of a request on one session changes neither the
\* chat_history of another session nor the transcript, the connector list or
\* a connector of an agent built for another session.
C19_NoCrossSessionSharing ==
  [][/\ \A s \in Sids : agent_instance'[s] # 0 =>
          /\ owner'[agent_instance'[s]] = s
          /\ \A u \in Sids : u # s => agent_instance'[u] # agent_instance'[s]
     /\ \A r \in Reqs : req'[r] # req[r] =>
          /\ \A u \in Sids : u # SessionOf(r) => chat_history'[u] = chat_history[u]
          /\ \A a \in Agents :
               (messages'[a] # messages[a] \/ conn'[a] # conn[a]
                  \/ mcp_clients'[a] # mcp_clients[a]) => owner'[a] = SessionOf(r)
    ]_vars

\* requests on both sessions have returned, each session holds its own agent
\* with its own connectors and its own transcript
C19_Witness ==
  /\ req[1].pc = "returned" /\ req[2].pc = "returned"
  /\ agent_instance[1] # 0 /\ agent_instance[2] # 0
  /\ chat_history[1] # <<>> /\ chat_history[2] # <<>>
  /\ \A s \in {1, 2} :
       /\ AllConnected(agent_instance[s])
       /\ Len(messages[agent_instance[s]]) > 2

\* the enumerated status values; "active" is the value a SessionData is
\* created with (the idle state) and "calling_tools" the spelling of
\* calling-tools
StatusValues == {"active", "thinking", "calling_tools", "processing", "completed", "error"}

C21_GetRefreshesActivity ==
  [][\A s \in Sids :
       \/ GetSession(s)
       \/ ApiDelete(s)
       \/ \E r \in Reqs : req[r].pc = "new" /\ req'[r].pc # "new" /\ req'[r].sid = s
       =>
         IF s \in sessions /\ now - last_activity[s] <= SESSION_TIMEOUT
         THEN last_activity'[s] = now
         ELSE last_activity' = last_activity
    ]_vars

\* session 1, created no later than session 2, was refreshed by a get_session
\* after session 2 was created, and a later get_session of the expired
\* session 2 answered None and left both values as they were
C21_Witness ==
  /\ sessions = {1, 2} /\ nextSid = 2
  /\ last_activity[1] > last_activity[2]
  /\ expiredSeen = {2}
  /\ now - last_activity[2] > SESSION_TIMEOUT
  /\ req[1].pc = "new"
  /\ \E t \in Tasks : tasks[t].pc = "scheduled" /\ tasks[t].sid = 2

\* C22: with the sweep running, a registered session that is idle-expired is
\* eventually deleted unless its activity is refreshed, also when the
\* delete_session of another expired session has failed in between.
C22_ExpiredEventuallyDeleted ==
  \A s \in Sids :
    (s \in sessions /\ is_expired(s)) ~> (s \notin sessions \/ ~is_expired(s))

\* the sweep is suspended in the delete_session of session 1, which a
\* concurrent delete_session has removed meanwhile, so its del will raise; the
\* expired session 2 is still on the sweep's list
C22_Witness ==
  /\ sweep.pc = "deleting" /\ sweep.sid = 1 /\ sweep.expired = <<2>>
  /\ 1 \notin sessions
  /\ 2 \in sessions /\ is_expired(2)

\* the positions in the events of websocket c of the travel_plan or error
\* message that ends request r
Terminal(c, r) ==
  {i \in DOMAIN sent[c] : sent[c][i].r = r /\ sent[c][i].type \in {"travel_plan", "error"}}

\* C23: every travel_request with content that a websocket_endpoint has read
\* and finished handling was answered on its own websocket by exactly one
\* terminal event: the travel_plan message when process_travel_request
\* returned, the error message when it raised.
C23_OneTerminalEventPerRequest ==
  \A c \in Conns : \A r \in handler[c].got :
    ~(handler[c].pc = "request" /\ handler[c].r = r) =>
      /\ Cardinality(Terminal(c, r)) = 1
      /\ \A i \in Terminal(c, r) :
           sent[c][i].type = IF req[r].pc = "returned" THEN "travel_plan" ELSE "error"

\* the assistant messages of a transcript: one per completion call that
\* has returned
Completions(msgs) == {q \in DOMAIN msgs : msgs[q].role = "assistant"}

\* C24: while _invoke runs, every completion call so far returned tool calls
\* and the loop has called the model again after each; _invoke is about to
\* return exactly when the last completion call returned the first response
\* without tool calls, so after k responses with tool calls it has made k + 1
\* completion calls, and no number of tool cycles ends the loop.
C24_LoopEndsAtFirstPlainResponse ==
  \A r \in Reqs :
    req[r].pc \in {"thinking", "tools", "calling", "processing", "finishing"} =>
      LET msgs == messages[req[r].agent]
          plain == {q \in Completions(msgs) : msgs[q].calls = <<>>}
      IN /\ Cardinality(Completions(msgs) \ plain) = req[r].chats
         /\ plain = IF req[r].pc = "finishing" THEN {Len(msgs)} ELSE {}
         /\ req[r].pc = "finishing" => Cardinality(Completions(msgs)) = req[r].chats + 1

\* _invoke is about to return after two tool cycles and three completion calls
C24_Witness ==
  /\ req[1].pc = "finishing"
  /\ req[1].chats = 2
  /\ Cardinality(Completions(messages[req[1].agent])) = 3

\* connector c of agent a, at its place in mcp_clients, declares the tool name
Declares(a, c, name) == c <= mcp_clients[a] /\ conn[a][c] # "new" /\ name \in Catalog(c)

\* C25: the connector invoked for a tool call declares the call's function
\* name and no connector before it in mcp_clients does; one connector is
\* invoked per call.
C25_FirstMatchWins ==
  [][\A r \in Reqs : req[r].pc = "tools" /\ req'[r].pc = "calling" =>
       LET a == req[r].agent
           name == Head(req[r].calls).name
       IN /\ req'[r].i \in Clients
          /\ Declares(a, req'[r].i, name)
          /\ \A d \in Clients : d < req'[r].i => ~Declares(a, d, name)
    ]_vars

\* a call of the tool that both connectors declare is dispatched to the first
C25_Witness ==
  /\ req[1].pc = "calling"
  /\ Head(req[1].calls).name = 1
  /\ mcp_clients[req[1].agent] = 2
  /\ \A c \in {1, 2} : conn[req[1].agent][c] = "connected" /\ 1 \in Catalog(c)
  /\ req[1].i = 1

\* C26: a tool call whose function name no connector of the agent declares
\* invokes no connector and gets the "tool not found" result under its id;
\* the loop then goes on with the next tool call of the response, or with the
\* next completion call after the last one.
C26_UnknownToolIsAnswered ==
  [][\A r \in Reqs : req[r].pc = "tools" /\ req'[r] # req[r] =>
       LET a == req[r].agent
           tc == Head(req[r].calls)
       IN (\A c \in Clients : ~Declares(a, c, tc.name)) =>
            /\ messages'[a] = Append(messages[a], ToolMessage(tc.id, "not_found"))
            /\ req'[r].calls = Tail(req[r].calls)
            /\ req'[r].pc = IF Tail(req[r].calls) = <<>> THEN "processing" ELSE "tools"
            /\ req'[r].i = 0
    ]_vars

\* with every connector in place, a call of a tool none declares was answered
\* "tool not found" and the next call of the same response got its result
C26_Witness ==
  /\ mcp_clients[1] = NumClients
  /\ \E q \in DOMAIN messages[1] :
       /\ messages[1][q].role = "tool" /\ messages[1][q].content = "not_found"
       /\ q < Len(messages[1])
       /\ messages[1][q + 1].role = "tool" /\ messages[1][q + 1].content = "result"
       /\ messages[1][q + 1].id = messages[1][q].id + 1

RECURSIVE Joined(_, _, _)
\* the pieces of one field of the chunks with index i, joined in the order
\* of the chunks
Joined(chs, i, field) ==
  IF chs = <<>> THEN <<>>
  ELSE (IF Head(chs).index = i THEN Head(chs)[field] ELSE <<>>) \o Joined(Tail(chs), i, field)

\* C27: while _chat accumulates and when it returns, content is the text
\* deltas joined in arrival order, there is one tool call per index that has
\* occurred, and the id, the function name and the arguments of the tool call
\* at index i are the pieces of the fragments with index i joined in arrival
\* order.
C27_FragmentsAreConcatenated ==
  stream \in {"streaming", "returned"} =>
    /\ content = Joined(chunks, -1, "text")
    /\ \A i \in 0..MaxIndex :
         (\E q \in DOMAIN chunks : chunks[q].index = i) <=> i < Len(tool_calls)
    /\ \A i \in 0..MaxIndex : i < Len(tool_calls) =>
         /\ tool_calls[i + 1].id = Joined(chunks, i, "id")
         /\ tool_calls[i + 1].name = Joined(chunks, i, "name")
         /\ tool_calls[i + 1].arguments = Joined(chunks, i, "arguments")

\* a returned call whose tool call 0 arrived in two fragments, the second
\* one adding to every field
C27_Witness ==
  /\ stream = "returned"
  /\ Len(chunks) = 3 /\ chunks[1].index = -1 /\ chunks[2].index = 0 /\ chunks[3].index = 0
  /\ content = <<2>>
  /\ tool_calls = <<[id |-> <<1, 2>>, name |-> <<2, 1>>, arguments |-> <<1, 2>>]>>

\* C28: the transcript of every driver only grows, the old transcript being a
\* prefix of the new one.  A chat call that completes appends the user
\* message when it has a prompt (the first call of _invoke) and none
\* otherwise, then exactly one assistant message; a tool result appends
\* exactly one tool-role message.
C28_TranscriptOnlyGrows ==
  [][/\ \A a \in Agents : IsPrefix(messages[a], messages'[a])
     /\ \A r \in Reqs :
          LET a == req[r].agent IN
          /\ req[r].pc \in {"thinking", "processing"} /\ req'[r].pc \in {"finishing", "tools"} =>
               /\ messages'[a][Len(messages'[a])].role = "assistant"
               /\ IF req[r].pc = "thinking"
                  THEN /\ Len(messages'[a]) = Len(messages[a]) + 2
                       /\ messages'[a][Len(messages[a]) + 1] = PromptMessage
                  ELSE Len(messages'[a]) = Len(messages[a]) + 1
          /\ req[r].pc \in {"tools", "calling"} /\ req'[r].calls # req[r].calls =>
               /\ Len(messages'[a]) = Len(messages[a]) + 1
               /\ messages'[a][Len(messages'[a])].role = "tool"
    ]_vars

\* a transcript after two completion calls and a tool result in between:
\* system prompt, context, the one user message, assistant, tool, assistant
C28_Witness ==
  /\ req[1].pc = "finishing"
  /\ LET msgs == messages[req[1].agent] IN
     /\ Len(msgs) = 6
     /\ msgs[3] = PromptMessage
     /\ msgs[4].role = "assistant" /\ msgs[5].role = "tool" /\ msgs[6].role = "assistant"

\* the order thinking, then calling_tools and processing once per tool cycle,
\* then completed or error, nothing else and nothing after the end
InOrder(st) ==
  /\ st # <<>> => st[1] = "thinking"
  /\ \A i \in DOMAIN st : i > 1 =>
       \/ st[i] = "calling_tools" /\ st[i - 1] \in {"thinking", "processing"}
       \/ st[i] = "processing" /\ st[i - 1] = "calling_tools"
       \/ st[i] = "completed" /\ st[i - 1] \in {"thinking", "processing"}
       \/ st[i] = "error" /\ st[i - 1] \in {"thinking", "calling_tools", "processing"}

\* C29: the status values emitted for one planning request come in the order
\* thinking, calling_tools, processing (the last two once per tool cycle),
\* completed or error; no processing comes before the first thinking and
\* nothing follows completed or error.
C29_StatusOrder == \A r \in Reqs : InOrder(req[r].st)

\* a ping of websocket c has not been read yet
PingWaiting(c) == \E i \in DOMAIN inbox[c] : inbox[c][i] = "ping"

\* C30: every ping sent on an open websocket is eventually read and answered
\* with a pong on it (or the websocket is closed), whether or not a planning
\* request of the websocket is being processed.
C30_PingEventuallyAnswered == \A c \in Conns : PingWaiting(c) ~> ~PingWaiting(c)

\* every tool call listed by an assistant message of the transcript has its
\* tool-role result in the transcript
AllAnswered(msgs) ==
  \A p \in DOMAIN msgs : \A j \in DOMAIN msgs[p].calls :
    ResultsFor(msgs, msgs[p].calls[j]) # {}

\* no tool result that answers another assistant message stands between the
\* assistant message at position p and a tool result of one of its tool calls
Unmixed(msgs) ==
  \A p \in DOMAIN msgs : \A j \in DOMAIN msgs[p].calls :
    \A q \in ResultsFor(msgs, msgs[p].calls[j]) : \A k \in (p + 1)..(q - 1) :
      msgs[k].role = "tool" => \E i \in DOMAIN msgs[p].calls : msgs[k].id = msgs[p].calls[i]

C32_OverlappingDeletesComplete ==
  [][/\ \A t \in Tasks :
          (tasks[t].pc = "cleanup" /\ tasks'[t] # tasks[t]) =>
             /\ tasks'[t].pc \in {"cleanup", "done"}
             /\ tasks'[t].pc = "done" => tasks[t].sid \notin sessions'
             /\ conn[tasks[t].agent][tasks[t].c] # "closed"
     /\ (sweep.pc = "deleting" /\ sweep' # sweep) =>
          /\ DelResume(sweep.sid, sweep.agent, sessions, mcp_clients).pc \in {"cleanup", "done"}
          /\ conn[sweep.agent][sweep.c] # "closed"
    ]_vars

\* C33: a step of a deletion task that create_session scheduled at capacity
\* neither removes the session of a request in flight nor pops a connector of
\* the agent that request runs on.
C33_EvictionSparesRunningRequests ==
  [][\A t \in Tasks :
       (tasks[t].pc \in {"scheduled", "cleanup"} /\ tasks'[t] # tasks[t]) =>
         \A r \in Reqs : InFlight(r) =>
           /\ req[r].sid \in sessions => req[r].sid \in sessions'
           /\ mcp_clients'[req[r].agent] = mcp_clients[req[r].agent]
    ]_vars

\* C36: an id with a status or stream callback list has a session: no
\* callback is registered under an id that is not a key of sessions.
C36_CallbacksOnlyForSessions ==
  \A s \in Sids : (status_callbacks[s] > 0 \/ stream_callbacks[s] > 0) => s \in sessions

\* the positions at which websocket c was sent the k-th status emitted for
\* request r
Notices(c, r, k) ==
  {i \in DOMAIN sent[c] : sent[c][i].type = "status" /\ sent[c][i].r = r /\ sent[c][i].k = k}

\* C34: a websocket is sent every emitted status at most once, and an id has
\* no more status and stream callbacks registered than websocket_endpoint
\* coroutines running for it: a disconnect leaves no callback behind.
C34_EventsSentOnce ==
  /\ \A c \in Conns : \A r \in Reqs : \A k \in 1..Len(sent[c]) :
       Cardinality(Notices(c, r, k)) <= 1
  /\ \A s \in Sids : status_callbacks[s] <= ws_open[s] /\ stream_callbacks[s] <= ws_open[s]

\* C35: on a websocket no status emitted for a request comes after the
\* travel_plan or error message of that request, and the statuses emitted for
\* a request are sent in the order of their emission.
C35_StatusBeforeTerminal ==
  \A c \in Conns : \A i, j \in DOMAIN sent[c] :
    (i < j /\ sent[c][i].r = sent[c][j].r /\ sent[c][j].type = "status" /\ sent[c][j].k > 0) =>
      /\ sent[c][i].type \notin {"travel_plan", "error"}
      /\ sent[c][i].type = "status" => sent[c][i].k <= sent[c][j].k

\* every prompt in the transcript but a last one has its assistant message
\* right after it
PromptsAnswered(msgs) ==
  \A q \in DOMAIN msgs :
    (msgs[q] = PromptMessage /\ q < Len(msgs)) => msgs[q + 1].role = "assistant"

\* C37: a chat call that fails leaves the transcript of its driver as it was
\* before the call, so the transcript a later chat call sends holds no prompt
\* of a failed call.
C37_FailedChatLeavesTranscript ==
  /\ [][\A r \in Reqs : ChatFails(r) => messages'[req[r].agent] = messages[req[r].agent]]_vars
  /\ [](\A a \in Agents : PromptsAnswered(messages[a]))

\* the tool-call indices the chunks have carried
Indices(chs) == {chs[q].index : q \in DOMAIN chs} \ {-1}

\* C38: whatever index each fragment carries, _chat does not fail, and what
\* it returns holds one tool call per distinct index, the tool call of a
\* smaller index before the tool call of a larger one.
C38_AnyIndexOrderAccumulates ==
  /\ stream # "raised"
  /\ stream = "returned" =>
       /\ Len(tool_calls) = Cardinality(Indices(chunks))
       /\ \A i \in Indices(chunks) :
            tool_calls[Cardinality({x \in Indices(chunks) : x <= i})].id
              = Joined(chunks, i, "id")

====
